---- MODULE Spec2Model ----
(***************************************************************************)
(* A model of the fsd-interface codec (a Rust crate): the primitive field  *)
(* codecs (transponder code, radio frequency, altitude), the per-message   *)
(* parsers and the top-level dispatcher FsdMessageType::identify.          *)
(*                                                                         *)
(* The crate is a library of pure functions.  Every specification below    *)
(* is a driver: Init draws one call (a function and its input) from a      *)
(* bounded set, and the actions apply the crate's functions to it in the   *)
(* order a caller would: decode, then encode, then decode again.           *)
(*                                                                         *)
(* Text.  A Rust &str is modelled as a sequence of characters; a character *)
(* is a string: the character itself for an ASCII character, and its code  *)
(* point's name ("U+00E9") for any other.  Utf8Len gives the number of     *)
(* bytes of a character, because str::len and the slices s[a..b] of the    *)
(* code count bytes, and a slice that cuts a character in two aborts.      *)
(*                                                                         *)
(* Results.  A Rust Result is a record with a tag: "Ok" (val), "Err" (err, *)
(* the variant of FsdMessageParseError, and what it carries) or "Abort"    *)
(* (the call panicked: an index past the end of a slice, a byte index      *)
(* inside a character, an arithmetic overflow in a checked build).         *)
(***************************************************************************)
EXTENDS Integers, Sequences, FiniteSets, TLC

VARIABLES pc, call, res, out, back

vars == <<pc, call, res, out, back>>

Nil == [tag |-> "Nil"]

-----------------------------------------------------------------------------
(* Text *)

\* The characters of a string literal, as a sequence of one-character strings.
Chars(s) == [i \in 1..Len(s) |-> SubSeq(s, i, i)]

\* A character of two bytes (e with acute accent) and its capital, and one of
\* three bytes (the ligature fl), whose uppercase is the two letters FL.
EAcute == "U+00E9"
EAcuteCapital == "U+00C9"
FlLigature == "U+FB02"
LStroke == "U+0141"
LStrokeSmall == "U+0142"

\* The number of bytes of the UTF-8 encoding of a character.
Utf8Len(c) ==
    IF c \in {EAcute, EAcuteCapital, LStroke, LStrokeSmall} THEN 2
    ELSE IF c = FlLigature THEN 3
    ELSE 1

\* str::len: the length of a text in bytes.
RECURSIVE ByteLen(_)
ByteLen(t) == IF t = <<>> THEN 0 ELSE Utf8Len(Head(t)) + ByteLen(Tail(t))

\* The number of leading characters of t that make up exactly n bytes, or -1
\* when byte index n falls inside a character or past the end of t
\* (str::is_char_boundary).
RECURSIVE CharsBefore(_, _)
CharsBefore(t, n) ==
    IF n = 0 THEN 0
    ELSE IF t = <<>> \/ Utf8Len(Head(t)) > n THEN -1
    ELSE LET k == CharsBefore(Tail(t), n - Utf8Len(Head(t)))
         IN  IF k = -1 THEN -1 ELSE k + 1

IsCharBoundary(t, n) == CharsBefore(t, n) # -1

\* The byte slices t[a..b] and t[a..], defined when IsCharBoundary holds.
SliceFrom(t, a) == SubSeq(t, CharsBefore(t, a) + 1, Len(t))
SliceTo(t, b) == SubSeq(t, 1, CharsBefore(t, b))

LowerLetters == Chars("abcdefghijklmnopqrstuvwxyz")
UpperLetters == Chars("ABCDEFGHIJKLMNOPQRSTUVWXYZ")

IndexOf(c, s) == CHOOSE i \in 1..Len(s) : s[i] = c

InSeq(c, s) == \E i \in 1..Len(s) : s[i] = c

\* char::to_uppercase.
UpperChar(c) ==
    IF InSeq(c, LowerLetters) THEN UpperLetters[IndexOf(c, LowerLetters)]
    ELSE IF c = EAcute THEN EAcuteCapital
    ELSE IF c = LStrokeSmall THEN LStroke
    ELSE c

LowerChar(c) ==
    IF InSeq(c, UpperLetters) THEN LowerLetters[IndexOf(c, UpperLetters)]
    ELSE IF c = EAcuteCapital THEN EAcute
    ELSE IF c = LStroke THEN LStrokeSmall
    ELSE c

\* str::to_lowercase
to_lowercase(t) == [i \in 1..Len(t) |-> LowerChar(t[i])]

\* str::to_uppercase.  The uppercase of one character
\* may be more than one character.
RECURSIVE to_uppercase(_)
to_uppercase(t) ==
    IF t = <<>> THEN <<>>
    ELSE (IF Head(t) = FlLigature THEN <<"F", "L">> ELSE <<UpperChar(Head(t))>>)
             \o to_uppercase(Tail(t))


\* str::starts_with.
starts_with(t, p) == Len(p) <= Len(t) /\ SubSeq(t, 1, Len(p)) = p

\* str::split on a set of separator characters: the pieces, in order (one
\* piece more than there are separators in t).
RECURSIVE split(_, _)
split(t, seps) ==
    IF \A i \in 1..Len(t) : t[i] \notin seps THEN <<t>>
    ELSE LET i == CHOOSE j \in 1..Len(t) :
                      t[j] \in seps /\ \A k \in 1..(j - 1) : t[k] \notin seps
         IN  <<SubSeq(t, 1, i - 1)>> \o split(SubSeq(t, i + 1, Len(t)), seps)

\* The pieces joined again with a separator between them.
RECURSIVE join(_, _)
join(pieces, sep) ==
    IF pieces = <<>> THEN <<>>
    ELSE IF Len(pieces) = 1 THEN pieces[1]
    ELSE pieces[1] \o sep \o join(Tail(pieces), sep)

\* All texts over an alphabet of at most n characters.
RECURSIVE TextsUpTo(_, _)
TextsUpTo(alphabet, n) ==
    IF n = 0 THEN {<<>>}
    ELSE LET shorter == TextsUpTo(alphabet, n - 1)
         IN  shorter \cup {Append(t, c) : t \in shorter, c \in alphabet}

-----------------------------------------------------------------------------
(* Numbers *)

DigitChars == Chars("0123456789")

IsDigit(c) == InSeq(c, DigitChars)

DigitVal(c) == IndexOf(c, DigitChars) - 1

AllDigits(t) == \A i \in 1..Len(t) : IsDigit(t[i])

\* A text without its leading zeros ("0" for a text of zeros only).
RECURSIVE StripZeros(_)
StripZeros(t) ==
    IF Len(t) > 1 /\ Head(t) = "0" THEN StripZeros(Tail(t)) ELSE t

\* Whether the number written by the digits d (no leading zeros) is greater
\* than the number written by the digits m (no leading zeros).
RECURSIVE DigitsGreater(_, _)
DigitsGreater(d, m) ==
    IF Len(d) # Len(m) THEN Len(d) > Len(m)
    ELSE IF d = <<>> THEN FALSE
    ELSE IF Head(d) # Head(m) THEN DigitVal(Head(d)) > DigitVal(Head(m))
    ELSE DigitsGreater(Tail(d), Tail(m))

\* The value of a digit text that is known to be small.
RECURSIVE DecVal(_)
DecVal(d) ==
    IF d = <<>> THEN 0 ELSE DecVal(SubSeq(d, 1, Len(d) - 1)) * 10 + DigitVal(d[Len(d)])

\* The decimal digits of a natural number.
RECURSIVE DecText(_)
DecText(n) ==
    IF n < 10 THEN <<DigitChars[n + 1]>>
    ELSE Append(DecText(n \div 10), DigitChars[(n % 10) + 1])

\* format!("{:0w}", n): the digits of n, with zeros in front up to width w.
RECURSIVE ZeroPad(_, _)
ZeroPad(d, w) == IF Len(d) >= w THEN d ELSE ZeroPad(<<"0">> \o d, w)

\* The digits core::num's from_str reads for an unsigned type: the text
\* minus one leading "+"; no digits at all when the text is not a number
\* (empty, a lone sign, a "-", any character that is no digit).
UnsignedDigits(t) ==
    LET body == IF t # <<>> /\ Head(t) = "+" THEN Tail(t) ELSE t
    IN  IF body # <<>> /\ AllDigits(body) THEN StripZeros(body) ELSE <<>>

U8Max == Chars("255")
U16Max == Chars("65535")
U32Max == Chars("4294967295")

\* str::parse::<u8>, ::<u16>: the value, or -1 for a ParseIntError.
ParseSmall(t, max) ==
    LET d == UnsignedDigits(t)
    IN  IF d = <<>> \/ DigitsGreater(d, max) THEN -1 ELSE DecVal(d)

ParseU8(t) == ParseSmall(t, U8Max)
ParseU16(t) == ParseSmall(t, U16Max)

-----------------------------------------------------------------------------
(* Results *)

Ok(v) == [tag |-> "Ok", val |-> v]
Err(e, t) == [tag |-> "Err", err |-> e, text |-> t]
Abort(why) == [tag |-> "Abort", why |-> why]

IsOk(r) == r.tag = "Ok"
IsErr(r, e) == r.tag = "Err" /\ r.err = e

-----------------------------------------------------------------------------
(* structs.rs: TransponderCode *)

\* How many characters a transponder-code input may have.
MaxSquawkLen == 5

OctalDigits == {"0", "1", "2", "3", "4", "5", "6", "7"}

\* TryFrom<u16> as it would be with the digit test off by one.
TransponderCode_try_from_Mutant(code) ==
    LET d0 == code \div 1000
        c1 == code - d0 * 1000
        d1 == c1 \div 100
        c2 == c1 - d1 * 100
        d2 == c2 \div 10
        d3 == c2 - d2 * 10
    IN  IF \E x \in {d0, d1, d2, d3} : x > 8
        THEN Err("InvalidTransponderCode", ZeroPad(DecText(d3), 4))
        ELSE Ok(d0 * 1000 + d1 * 100 + d2 * 10 + d3)

\* impl TryFrom<u16> for TransponderCode.  code is taken apart digit by
\* digit; the error carries what is left of code, its last digit.
TransponderCode_try_from(code) ==
    LET d0 == code \div 1000
        c1 == code - d0 * 1000
        d1 == c1 \div 100
        c2 == c1 - d1 * 100
        d2 == c2 \div 10
        d3 == c2 - d2 * 10
    IN  IF \E x \in {d0, d1, d2, d3} : x > 7
        THEN Err("InvalidTransponderCode", ZeroPad(DecText(d3), 4))
        ELSE Ok(d0 * 1000 + d1 * 100 + d2 * 10 + d3)

\* impl FromStr for TransponderCode.
TransponderCode_from_str(s) ==
    LET code == ParseU16(s)
    IN  IF code = -1 THEN Err("InvalidTransponderCode", s)
        ELSE TransponderCode_try_from(code)

\* impl Display for TransponderCode: "{:04}".
TransponderCode_fmt(code) == ZeroPad(DecText(code), 4)

\* The inputs of the transponder-code driver: every text of at most
\* MaxSquawkLen characters over a few digits, a sign and a letter.
SquawkAlphabet == {"0", "1", "7", "8", "9", "+", "x"}

SquawkInputs == TextsUpTo(SquawkAlphabet, MaxSquawkLen)

InitSquawk ==
    /\ pc = "start"
    /\ call \in {[fn |-> "TransponderCode::from_str", text |-> t] : t \in SquawkInputs}
    /\ res = Nil
    /\ out = Nil
    /\ back = Nil

\* A caller parses a transponder code ...
SquawkParse ==
    /\ pc = "start"
    /\ res' = TransponderCode_from_str(call.text)
    /\ pc' = "decoded"
    /\ UNCHANGED <<call, out, back>>

\* ... and writes it again.
SquawkFormat ==
    /\ pc = "decoded"
    /\ IsOk(res)
    /\ out' = TransponderCode_fmt(res.val)
    /\ pc' = "encoded"
    /\ UNCHANGED <<call, res, back>>

NextSquawk == SquawkParse \/ SquawkFormat

SpecSquawk == InitSquawk /\ [][NextSquawk]_vars

\* C7: a text of four digits, each in 0..7, parses as a transponder code and
\* is written back as the same four characters; a text of digits with an 8 or
\* a 9 in it, or of more than four significant digits, fails with
\* InvalidTransponderCode and yields no code.
C7_SquawkRoundTrip ==
    pc \in {"decoded", "encoded"} =>
        LET t == call.text
            fourOctal == Len(t) = 4 /\ \A i \in 1..4 : t[i] \in OctalDigits
            outOfRange == /\ t # <<>>
                          /\ AllDigits(t)
                          /\ \/ \E i \in 1..Len(t) : t[i] \in {"8", "9"}
                             \/ Len(StripZeros(t)) > 4
        IN  /\ fourOctal => IsOk(res) /\ (pc = "encoded" => out = t)
            /\ outOfRange => IsErr(res, "InvalidTransponderCode") /\ pc # "encoded"

C7_Witness ==
    /\ pc = "encoded"
    /\ call.text = Chars("0717")
    /\ out = Chars("0717")

-----------------------------------------------------------------------------
(* structs.rs: RadioFrequency *)

\* The largest thousandths part the frequency driver hands to
\* RadioFrequency::new, and the longest compact-form text it parses.
MaxThousandths == 1000
MaxCompactLen == 5

Freq(l, r) == [left |-> l, right |-> r]

\* format!("{}.{:03}", left, right)
FreqDotted(l, r) == DecText(l) \o <<".">> \o ZeroPad(DecText(r), 3)

\* RadioFrequency::new with the upper end of the airband left out.
RadioFrequency_new_Mutant(left, right) ==
    IF ~ \/ left \in 118..136
         \/ left = 199 /\ right = 998
         \/ left = 149 /\ right = 999
    THEN Err("InvalidFrequency", FreqDotted(left, right))
    ELSE Ok(Freq(left, right))

\* RadioFrequency::new
RadioFrequency_new(left, right) ==
    IF ~ \/ left \in 118..137
         \/ left = 199 /\ right = 998
         \/ left = 149 /\ right = 999
    THEN Err("InvalidFrequency", FreqDotted(left, right))
    ELSE Ok(Freq(left, right))

\* RadioFrequency::to_human_readable_string
to_human_readable_string(f) == FreqDotted(f.left, f.right)

\* RadioFrequency::try_from_human_readable_string: the first two pieces
\* between dots, each parsed as a u16; further pieces are not looked at.
try_from_human_readable_string(input) ==
    LET pieces == split(input, {"."})
        left == ParseU16(pieces[1])
        right == ParseU16(pieces[2])
    IN  IF left = -1 THEN Err("InvalidFrequency", input)
        ELSE IF Len(pieces) < 2 THEN Err("InvalidFrequency", input)
        ELSE IF right = -1 THEN Err("InvalidFrequency", input)
        ELSE RadioFrequency_new(left, right)

\* impl FromStr for RadioFrequency (the compact form).  The length is a
\* length in bytes, and short_form[0..2] aborts when byte 2 is inside a
\* character.
RadioFrequency_from_str(short_form) ==
    IF ByteLen(short_form) # 5 THEN Err("InvalidFrequency", short_form)
    ELSE IF ~IsCharBoundary(short_form, 2)
    THEN Abort("byte index 2 is not a char boundary")
    ELSE LET left == ParseU16(SliceTo(short_form, 2))
             right == ParseU16(SliceFrom(short_form, 2))
         IN  IF left = -1 \/ right = -1 THEN Err("InvalidFrequency", short_form)
             ELSE RadioFrequency_new(left + 100, right)

\* impl Display for RadioFrequency with the padding of the thousandths lost.
RadioFrequency_fmt_Mutant(f) ==
    IF f.left < 100 THEN Abort("attempt to subtract with overflow")
    ELSE Ok(DecText(f.left - 100) \o DecText(f.right))

\* impl Display for RadioFrequency: "{}{:03}" of left - 100 and right.  The
\* subtraction is one of u16.
RadioFrequency_fmt(f) ==
    IF f.left < 100 THEN Abort("attempt to subtract with overflow")
    ELSE Ok(DecText(f.left - 100) \o ZeroPad(DecText(f.right), 3))

\* The driver's calls.
FreqLefts == (117..138) \cup {0, 99, 100, 148, 149, 150, 198, 199, 200, 65535}

CompactAlphabet == {"0", "1", "8", "+", EAcute}

CompactInputs ==
    TextsUpTo(CompactAlphabet, MaxCompactLen)
        \cup {Chars("49999"), Chars("99998"), Chars("49998"), Chars("99999"),
              Chars("37000"), Chars("17999"), Chars("18300"), Chars("183000")}

NumberTexts ==
    {<<>>, Chars("117"), Chars("118"), Chars("137"), Chars("138"), Chars("149"),
     Chars("199"), Chars("0"), Chars("030"), Chars("300"), Chars("998"),
     Chars("999"), Chars("1000"), Chars("65535"), Chars("65536"), Chars("+5"),
     Chars("-5"), Chars("x")}

DottedInputs ==
    NumberTexts
        \cup {l \o <<".">> \o r : l \in NumberTexts, r \in NumberTexts}
        \cup {l \o Chars(".300.") \o r : l \in NumberTexts, r \in NumberTexts}

FreqCall(fn, text, left, right) ==
    [fn |-> fn, text |-> text, left |-> left, right |-> right]

FreqCalls ==
    {FreqCall("RadioFrequency::new", <<>>, l, r) :
        l \in FreqLefts, r \in 0..MaxThousandths}
        \cup {FreqCall("RadioFrequency::from_str", t, 0, 0) : t \in CompactInputs}
        \cup {FreqCall("RadioFrequency::try_from_human_readable_string", t, 0, 0) :
                t \in DottedInputs}

InitFreq ==
    /\ pc = "start"
    /\ call \in FreqCalls
    /\ res = Nil
    /\ out = Nil
    /\ back = Nil

FreqNew ==
    /\ pc = "start"
    /\ call.fn = "RadioFrequency::new"
    /\ res' = RadioFrequency_new(call.left, call.right)
    /\ pc' = "decoded"
    /\ UNCHANGED <<call, out, back>>

FreqFromStr ==
    /\ pc = "start"
    /\ call.fn = "RadioFrequency::from_str"
    /\ res' = RadioFrequency_from_str(call.text)
    /\ pc' = "decoded"
    /\ UNCHANGED <<call, out, back>>

FreqFromHuman ==
    /\ pc = "start"
    /\ call.fn = "RadioFrequency::try_from_human_readable_string"
    /\ res' = try_from_human_readable_string(call.text)
    /\ pc' = "decoded"
    /\ UNCHANGED <<call, out, back>>

\* The frequency is written in both forms ...
FreqFormat ==
    /\ pc = "decoded"
    /\ IsOk(res)
    /\ out' = [human |-> to_human_readable_string(res.val),
               wire |-> RadioFrequency_fmt(res.val)]
    /\ pc' = "encoded"
    /\ UNCHANGED <<call, res, back>>

\* ... and each form is read again by its own parser.
FreqReparse ==
    /\ pc = "encoded"
    /\ IsOk(out.wire)
    /\ back' = [human |-> try_from_human_readable_string(out.human),
                wire |-> RadioFrequency_from_str(out.wire.val)]
    /\ pc' = "reparsed"
    /\ UNCHANGED <<call, res, out>>

NextFreq == FreqNew \/ FreqFromStr \/ FreqFromHuman \/ FreqFormat \/ FreqReparse

SpecFreq == InitFreq /\ [][NextFreq]_vars

\* The acceptance rule of the claims: the civil airband, or one of the two
\* reserved channels.
FreqAccepted(l, r) ==
    \/ 118 <= l /\ l <= 137
    \/ <<l, r>> = <<199, 998>>
    \/ <<l, r>> = <<149, 999>>

ThreeDigits(n) ==
    <<DigitChars[((n \div 100) % 10) + 1], DigitChars[((n \div 10) % 10) + 1],
      DigitChars[(n % 10) + 1]>>

CanonicalDotted(l, r) == ThreeDigits(l) \o <<".">> \o ThreeDigits(r)

CanonicalCompact(l, r) == Tail(ThreeDigits(l - 100)) \o ThreeDigits(r)

\* C9: for a frequency with whole part in 118..137 and thousandths in
\* 0..999, and for 199.998 and 149.999, to_human_readable_string gives the
\* dotted form XXX.YYY, Display gives the compact form XXYYY, and parsing
\* either form gives back the same pair.
C9_FreqRoundTrip ==
    (/\ call.fn = "RadioFrequency::new"
     /\ call.right <= 999
     /\ FreqAccepted(call.left, call.right)) =>
        /\ pc \in {"encoded", "reparsed"} =>
              /\ out.human = CanonicalDotted(call.left, call.right)
              /\ out.wire = Ok(CanonicalCompact(call.left, call.right))
        /\ pc = "reparsed" =>
              /\ back.human = Ok(Freq(call.left, call.right))
              /\ back.wire = back.human

C9_Witness ==
    /\ pc = "reparsed"
    /\ call.fn = "RadioFrequency::new"
    /\ call.left = 118 /\ call.right = 30
    /\ out.human = Chars("118.030")
    /\ out.wire = Ok(Chars("18030"))
    /\ back.wire = Ok(Freq(118, 30))

-----------------------------------------------------------------------------
(* util.rs: parse_altitude *)

\* How many characters a generated altitude input may have.
MaxAltLen == 4

\* A u32 is kept as two 16-bit halves <<hi, lo>>, so that no intermediate
\* value passes 2^31.
Half == 65536

\* str::parse::<u32>: the halves of the value, or <<-1, -1>> for a
\* ParseIntError.
RECURSIVE HalvesOf(_)
HalvesOf(d) ==
    IF d = <<>> THEN <<0, 0>>
    ELSE LET h == HalvesOf(SubSeq(d, 1, Len(d) - 1))
             lo == h[2] * 10 + DigitVal(d[Len(d)])
         IN  <<h[1] * 10 + (lo \div Half), lo % Half>>

ParseU32(t) ==
    LET d == UnsignedDigits(t)
    IN  IF d = <<>> \/ DigitsGreater(d, U32Max) THEN <<-1, -1>> ELSE HalvesOf(d)

\* The decimal digits of a u32 (its Display).
RECURSIVE U32Digits(_)
U32Digits(h) ==
    LET rest == (h[1] % 10) * Half + h[2]
        q == <<h[1] \div 10, rest \div 10>>
        q2 == <<q[1] + (q[2] \div Half), q[2] % Half>>
        last == <<DigitChars[(rest % 10) + 1]>>
    IN  IF q2 = <<0, 0>> THEN last ELSE U32Digits(q2) \o last

\* as_num * 100 before it is cut to 32 bits: the high half may pass 2^16.
TimesHundred(h) ==
    LET lo == h[2] * 100
    IN  <<h[1] * 100 + (lo \div Half), lo % Half>>

\* parse_altitude in one build.  The value of an Ok is written in decimal
\* digits.  `as_num *= 100` on a u32 aborts in a build with overflow checks
\* and wraps around in one without.
parse_altitude_build(input, overflow_checks) ==
    IF input = <<>> THEN Ok(<<"0">>)
    ELSE LET flight_level == starts_with(to_uppercase(input), <<"F", "L">>)
         IN  IF flight_level /\ ~IsCharBoundary(input, 2)
             THEN Abort("byte index 2 is not a char boundary")
             ELSE LET input_trimmed ==
                          IF flight_level THEN SliceFrom(input, 2) ELSE input
                      as_num == ParseU32(input_trimmed)
                      product == TimesHundred(as_num)
                  IN  IF as_num = <<-1, -1>> THEN Err("InvalidAltitude", input)
                      ELSE IF ~flight_level THEN Ok(U32Digits(as_num))
                      ELSE IF product[1] < Half THEN Ok(U32Digits(product))
                      ELSE IF overflow_checks
                      THEN Abort("attempt to multiply with overflow")
                      ELSE Ok(U32Digits(<<product[1] % Half, product[2]>>))

\* parse_altitude: the results the builds can give.
parse_altitude(input) == {parse_altitude_build(input, c) : c \in BOOLEAN}

AltitudeAlphabet == {"F", "l", "0", "1", "+", "x"}

AltitudeInputs ==
    TextsUpTo(AltitudeAlphabet, MaxAltLen)
        \cup {Chars("FL350"), Chars("fl350"), Chars("10000"), Chars("FL"),
              Chars("4294967295"), Chars("4294967296"), Chars("FL42949672"),
              Chars("FL42949673"), Chars("FL4294967295"), Chars("-100"),
              <<FlLigature>> \o Chars("350"), <<"F", EAcute>> \o Chars("350")}

InitAltitude ==
    /\ pc = "start"
    /\ call \in {[fn |-> "parse_altitude", text |-> t] : t \in AltitudeInputs}
    /\ res = Nil
    /\ out = Nil
    /\ back = Nil

AltitudeParse ==
    /\ pc = "start"
    /\ res' \in parse_altitude(call.text)
    /\ pc' = "decoded"
    /\ UNCHANGED <<call, out, back>>

NextAltitude == AltitudeParse

SpecAltitude == InitAltitude /\ [][NextAltitude]_vars

\* Whether a text is "FL" in any letter case followed by digits.
IsFlightLevelText(t) ==
    /\ Len(t) > 2
    /\ t[1] \in {"F", "f"}
    /\ t[2] \in {"L", "l"}
    /\ AllDigits(SubSeq(t, 3, Len(t)))

\* C10: parse_altitude gives 0 for the empty text, n for a text of decimal
\* digits n, 100 * n for "FL" in any letter case followed by decimal digits
\* n, and InvalidAltitude carrying the whole input for every other text.
C10_ParseAltitude ==
    pc = "decoded" =>
        LET t == call.text
        IN  IF t = <<>> THEN res = Ok(<<"0">>)
            ELSE IF AllDigits(t) THEN res = Ok(StripZeros(t))
            ELSE IF IsFlightLevelText(t)
            THEN res = Ok(StripZeros(SubSeq(t, 3, Len(t)) \o <<"0", "0">>))
            ELSE res = Err("InvalidAltitude", t)

C10_Witness ==
    /\ pc = "decoded"
    /\ call.text = Chars("FL350")
    /\ res = Ok(Chars("35000"))

-----------------------------------------------------------------------------
(* The parsers of one field *)

U64Max == Chars("18446744073709551615")

\* str::parse for an unsigned integer type with the given greatest value:
\* the value in decimal digits, or a ParseError.
ParseUnsigned(t, max) ==
    LET d == UnsignedDigits(t)
    IN  IF d = <<>> \/ DigitsGreater(d, max) THEN Err("ParseError", t) ELSE Ok(d)

HexDigitChars == Chars("0123456789ABCDEF")

\* u16::from_str_radix(t, 16): one leading "+" is taken, the digits are of
\* either case, and more than four significant digits overflow.
ParseHexU16(t) ==
    LET body == to_uppercase(IF t # <<>> /\ Head(t) = "+" THEN Tail(t) ELSE t)
    IN  IF /\ body # <<>>
           /\ \A i \in 1..Len(body) : InSeq(body[i], HexDigitChars)
           /\ Len(StripZeros(body)) <= 4
        THEN Ok(StripZeros(body))
        ELSE Err("ParseError", t)

\* str::parse::<f64>: an optional sign, then inf, infinity or nan in any
\* letter case, or digits with at most one point among them and an optional
\* exponent.  The number is kept as its text.
IsFloatText(t) ==
    LET body == IF t # <<>> /\ Head(t) \in {"+", "-"} THEN Tail(t) ELSE t
        parts == split(body, {"e", "E"})
        mantissa == split(parts[1], {"."})
        exponent == IF parts[2] # <<>> /\ Head(parts[2]) \in {"+", "-"}
                    THEN Tail(parts[2]) ELSE parts[2]
    IN  \/ to_uppercase(body) \in {Chars("INF"), Chars("INFINITY"), Chars("NAN")}
        \/ /\ Len(parts) <= 2
           /\ Len(mantissa) <= 2
           /\ \A i \in 1..Len(mantissa) : AllDigits(mantissa[i])
           /\ \E i \in 1..Len(mantissa) : mantissa[i] # <<>>
           /\ Len(parts) = 2 => exponent # <<>> /\ AllDigits(exponent)

ParseF64(t) == IF IsFloatText(t) THEN Ok(t) ELSE Err("ParseError", t)

\* One of the texts an enum's FromStr matches, or the enum's own error.
OneOf(t, texts, err) ==
    IF \E x \in texts : Chars(x) = t THEN Ok(t) ELSE Err(err, t)

\* impl FromStr for AtcRating, PilotRating: a u8 within the enum's range.
ParseRating(t, greatest) ==
    LET n == ParseU8(t)
    IN  IF n >= 1 /\ n <= greatest THEN Ok(n) ELSE Err("InvalidRating", t)

\* impl FromStr for FlightRules: the text is uppercased first, and the error
\* carries the uppercased text.
ParseFlightRules(t) ==
    IF to_uppercase(t) \in {<<"D">>, <<"S">>, <<"V">>, <<"I">>}
    THEN Ok(to_uppercase(t))
    ELSE Err("InvalidFlightRules", to_uppercase(t))

\* str::parse into an unsigned integer type (usize is of 64 bits).
parse_u8(t) == ParseUnsigned(t, U8Max)
parse_u16(t) == ParseUnsigned(t, U16Max)
parse_u32(t) == ParseUnsigned(t, U32Max)
parse_u64(t) == ParseUnsigned(t, U64Max)
parse_usize(t) == ParseUnsigned(t, U64Max)

\* impl FromStr for the enums of the crate; each fails with its own error.
\* SimulatorType is made From a text and takes any.
AtcRating_from_str(t) == ParseRating(t, 12)
PilotRating_from_str(t) == ParseRating(t, 5)
ProtocolRevision_from_str(t) ==
    OneOf(t, {"1", "9", "10", "100", "101"}, "InvalidProtocolRevison")
SimulatorType_from(t) == Ok(t)
AtcType_from_str(t) ==
    OneOf(t, {"0", "1", "2", "3", "4", "5", "6"}, "InvalidAtcType")
TransponderMode_from_str(t) == OneOf(t, {"S", "N", "Y"}, "InvalidTransponderMode")

-----------------------------------------------------------------------------
(* messages.rs: the steps of a parser *)

IndexAbort == Abort("index out of bounds")

InvalidFieldCount(expected, found) == Err("InvalidFieldCount", <<expected, found>>)

\* fields[i] of the code, where fields is indexed from 0.
At(fields, i) == fields[i + 1]

\* fields[i].parse() with map_err(|_| err(fields[j])): r is the result of
\* the parse of At(fields, i), looked at only when the field is there; an
\* index past the end of the slice aborts.  A primitive type fails with
\* ParseError, which the caller maps to an error of its own; an enum's own
\* error stands as it is.
Step(fields, i, r, err, j) ==
    IF i >= Len(fields) THEN IndexAbort
    ELSE IF r.tag = "Err" /\ r.err = "ParseError"
    THEN IF j >= Len(fields) THEN IndexAbort ELSE Err(err, At(fields, j))
    ELSE r

\* fields[i] taken as it is, fields[i] uppercased by the constructor, and
\* fields[i].parse()? into an enum of the crate.
Text(fields, i) == IF i >= Len(fields) THEN IndexAbort ELSE Ok(At(fields, i))
Upper(fields, i) ==
    IF i >= Len(fields) THEN IndexAbort ELSE Ok(to_uppercase(At(fields, i)))
Enum(fields, i, r) == Step(fields, i, r, "", i)

\* fields.get(i), with a default for a missing field.
GetOr(fields, i, default) == IF i < Len(fields) THEN fields[i + 1] ELSE default

\* &fields[0][k..], uppercased by the constructor: the sender's callsign
\* after a prefix of k bytes.
Sender(fields, k) ==
    IF ~IsCharBoundary(fields[1], k) THEN Abort("byte index is not a char boundary")
    ELSE Ok(to_uppercase(SliceFrom(fields[1], k)))

\* fields[i..] joined by colons (the rest of a line whose text has colons).
Rest(fields, i) ==
    IF i > Len(fields) THEN Abort("range start index out of range")
    ELSE Ok(join(SubSeq(fields, i + 1, Len(fields)), <<":">>))

\* The steps of a parser are evaluated in order and the first one that fails
\* is the parser's result; when none fails the message is built of the
\* steps' values.
RECURSIVE FirstFailure(_)
FirstFailure(steps) ==
    IF steps = <<>> THEN Nil
    ELSE IF Head(steps).tag # "Ok" THEN Head(steps)
    ELSE FirstFailure(Tail(steps))

Build(kind, steps) ==
    IF FirstFailure(steps) # Nil THEN FirstFailure(steps)
    ELSE Ok([kind |-> kind, body |-> [i \in 1..Len(steps) |-> steps[i].val]])

\* check_min_num_fields!, then the steps.
MinFields(fields, min, kind, steps) ==
    IF Len(fields) < min THEN InvalidFieldCount(min, Len(fields))
    ELSE Build(kind, steps)

\* fields.get(i).copied(): an Option, here a sequence of no or one text.
Opt(fields, i) == Ok(IF i < Len(fields) THEN <<fields[i + 1]>> ELSE <<>>)

\* util::split_frequencies: the pieces between '&' and '@' that
\* RadioFrequency::from_str accepts; a piece it rejects is dropped, and a
\* piece it aborts on aborts the call.
Kept(pieces) ==
    LET parsed == [i \in 1..Len(pieces) |-> RadioFrequency_from_str(pieces[i])]
    IN  IF \E i \in 1..Len(parsed) : parsed[i].tag = "Abort"
        THEN parsed[CHOOSE i \in 1..Len(parsed) : parsed[i].tag = "Abort"]
        ELSE LET kept == SelectSeq(parsed, IsOk)
             IN  Ok([i \in 1..Len(kept) |-> kept[i].val])

split_frequencies(input) == Kept(split(input, {"&", "@"}))

Frequencies(fields, i) ==
    IF i >= Len(fields) THEN IndexAbort ELSE split_frequencies(fields[i + 1])

\* str::parse::<i32>().unwrap_or_default()
I32Max == Chars("2147483647")
I32MinMagnitude == Chars("2147483648")

ParseI32OrDefault(t) ==
    LET signed == t # <<>> /\ Head(t) \in {"+", "-"}
        body == IF signed THEN Tail(t) ELSE t
        max == IF signed /\ Head(t) = "-" THEN I32MinMagnitude ELSE I32Max
    IN  IF body # <<>> /\ AllDigits(body) /\ ~DigitsGreater(StripZeros(body), max)
        THEN Ok(t)
        ELSE Ok(<<"0">>)

\* impl TryFrom<&[&str]> for AtcRegisterMessage (#AA)
AtcRegisterMessage_try_from(fields) ==
    MinFields(fields, 7, "AtcRegister",
        <<Sender(fields, 3), Upper(fields, 1), Text(fields, 2), Text(fields, 3),
          Text(fields, 4), Enum(fields, 5, AtcRating_from_str(At(fields, 5))),
          ProtocolRevision_from_str(GetOr(fields, 6, <<"9">>))>>)

\* impl TryFrom<&[&str]> for PilotRegisterMessage (#AP)
PilotRegisterMessage_try_from(fields) ==
    MinFields(fields, 7, "PilotRegister",
        <<Sender(fields, 3), Upper(fields, 1), Ok(GetOr(fields, 7, <<>>)),
          Text(fields, 2), Text(fields, 3), Enum(fields, 4, PilotRating_from_str(At(fields, 4))),
          Enum(fields, 5, ProtocolRevision_from_str(At(fields, 5))),
          Enum(fields, 6, SimulatorType_from(At(fields, 6)))>>)

\* impl TryFrom<&[&str]> for AtcDeregisterMessage (#DA)
AtcDeregisterMessage_try_from(fields) ==
    MinFields(fields, 2, "AtcDeregister", <<Sender(fields, 3), Text(fields, 1)>>)

\* impl TryFrom<&[&str]> for PilotDeregisterMessage (#DP)
PilotDeregisterMessage_try_from(fields) ==
    MinFields(fields, 2, "PilotDeregister", <<Sender(fields, 3), Text(fields, 1)>>)

\* impl TryFrom<&[&str]> for AtcPositionUpdateMessage (%)
AtcPositionUpdateMessage_try_from(fields) ==
    MinFields(fields, 7, "AtcPositionUpdate",
        <<Sender(fields, 1), Frequencies(fields, 1),
          Enum(fields, 2, AtcType_from_str(At(fields, 2))),
          Step(fields, 3, parse_u32(At(fields, 3)), "InvalidVisRange", 3),
          Enum(fields, 4, AtcRating_from_str(At(fields, 4))),
          Step(fields, 5, ParseF64(At(fields, 5)), "InvalidCoordinate", 5),
          Step(fields, 6, ParseF64(At(fields, 6)), "InvalidCoordinate", 6),
          ParseI32OrDefault(GetOr(fields, 7, <<"0">>))>>)

\* impl TryFrom<&[&str]> for AtcSecondaryVisCentreMessage ('): the error of
\* a bad coordinate carries fields[5].
AtcSecondaryVisCentreMessage_try_from(fields) ==
    MinFields(fields, 4, "AtcSecondaryVisCentre",
        <<Sender(fields, 1), Step(fields, 1, parse_usize(At(fields, 1)), "InvalidIndex", 1),
          Step(fields, 2, ParseF64(At(fields, 2)), "InvalidCoordinate", 5),
          Step(fields, 3, ParseF64(At(fields, 3)), "InvalidCoordinate", 5)>>)

\* impl TryFrom<&[&str]> for PilotPositionUpdateMessage (@): the altitudes
\* and the packed attitude are parsed before the other fields.
PilotPositionUpdateMessage_try_from(fields) ==
    MinFields(fields, 10, "PilotPositionUpdate",
        <<Sender(fields, 1),
          Step(fields, 6, ParseF64(At(fields, 6)), "InvalidAltitude", 6),
          Step(fields, 9, ParseF64(At(fields, 9)), "InvalidAltitudeDifference", 9),
          Step(fields, 8, parse_u32(At(fields, 8)), "InvalidPitchBankHeading", 8),
          Upper(fields, 1),
          TransponderMode_from_str(SliceFrom(fields[1], 1)),
          Enum(fields, 2, TransponderCode_from_str(At(fields, 2))),
          Enum(fields, 3, PilotRating_from_str(At(fields, 3))),
          Step(fields, 4, ParseF64(At(fields, 4)), "InvalidCoordinate", 4),
          Step(fields, 5, ParseF64(At(fields, 5)), "InvalidCoordinate", 5),
          Step(fields, 7, parse_u32(At(fields, 7)), "InvalidSpeed", 7)>>)

\* impl TryFrom<&[&str]> for AuthenticationChallengeMessage ($ZC)
AuthenticationChallengeMessage_try_from(fields) ==
    MinFields(fields, 3, "AuthenticationChallenge",
        <<Sender(fields, 3), Upper(fields, 1), Text(fields, 2)>>)

\* impl TryFrom<&[&str]> for AuthenticationResponseMessage ($ZR)
AuthenticationResponseMessage_try_from(fields) ==
    MinFields(fields, 3, "AuthenticationResponse",
        <<Sender(fields, 3), Upper(fields, 1), Text(fields, 2)>>)

\* impl TryFrom<&[&str]> for TextMessage (#TM)
TextMessage_try_from(fields) ==
    MinFields(fields, 3, "TextMessage",
        <<Sender(fields, 3), Upper(fields, 1), Rest(fields, 2)>>)

\* impl TryFrom<&[&str]> for FrequencyMessage (#TM to frequencies)
FrequencyMessage_try_from(fields) ==
    MinFields(fields, 3, "FrequencyMessage",
        <<Sender(fields, 3), Rest(fields, 2), Frequencies(fields, 1)>>)

\* impl TryFrom<&[&str]> for ChangeServerMessage ($XX)
ChangeServerMessage_try_from(fields) ==
    MinFields(fields, 3, "ChangeServer",
        <<Sender(fields, 3), Upper(fields, 1), Text(fields, 2)>>)

\* impl TryFrom<&[&str]> for InitialServerHandshakeMessage ($DI): three
\* fields are asked for and four are read.
InitialServerHandshakeMessage_try_from(fields) ==
    MinFields(fields, 3, "InitialServerHandshake",
        <<Sender(fields, 3), Upper(fields, 1), Text(fields, 2), Text(fields, 3)>>)

\* impl TryFrom<&[&str]> for InitialClientHandshakeMessage ($ID)
InitialClientHandshakeMessage_try_from(fields) ==
    MinFields(fields, 8, "InitialClientHandshake",
        <<Sender(fields, 3), Upper(fields, 1),
          Step(fields, 2, ParseHexU16(At(fields, 2)), "InvalidClientID", 2), Text(fields, 3),
          Step(fields, 4, parse_u32(At(fields, 4)), "InvalidVersionNumber", 4),
          Step(fields, 5, parse_u32(At(fields, 5)), "InvalidVersionNumber", 5),
          Text(fields, 6), Text(fields, 7), Opt(fields, 8)>>)

\* impl TryFrom<&[&str]> for SendFastPositionUpdatesMessage ($SF)
SendFastPositionUpdatesMessage_try_from(fields) ==
    MinFields(fields, 3, "SendFastPositionUpdates",
        <<Sender(fields, 3), Upper(fields, 1),
          IF 2 < Len(fields) THEN Ok(fields[3] = <<"1">>) ELSE IndexAbort>>)

\* fields.get(i) parsed as an f64 when the field is there.
OptF64(fields, i, err) ==
    IF i >= Len(fields) THEN Ok(<<>>)
    ELSE IF IsFloatText(fields[i + 1]) THEN Ok(<<fields[i + 1]>>)
    ELSE Err(err, fields[i + 1])

\* impl TryFrom<&[&str]> for VelocityPositionStoppedMessage (#ST)
VelocityPositionStoppedMessage_try_from(fields) ==
    MinFields(fields, 6, "VelocityPositionStopped",
        <<Sender(fields, 3),
          Step(fields, 5, parse_u32(At(fields, 5)), "InvalidPitchBankHeading", 5),
          OptF64(fields, 6, "InvalidNosewheelAngle"),
          Step(fields, 1, ParseF64(At(fields, 1)), "InvalidCoordinate", 1),
          Step(fields, 2, ParseF64(At(fields, 2)), "InvalidCoordinate", 2),
          Step(fields, 3, ParseF64(At(fields, 3)), "InvalidAltitude", 3),
          Step(fields, 4, ParseF64(At(fields, 4)), "InvalidAltitude", 4)>>)

\* The steps VelocityPositionSlowMessage and VelocityPositionFastMessage
\* share after the sender.
VelocitySteps(fields) ==
    <<Step(fields, 5, parse_u32(At(fields, 5)), "InvalidPitchBankHeading", 5),
      OptF64(fields, 12, "InvalidNosewheelAngle"),
      Step(fields, 1, ParseF64(At(fields, 1)), "InvalidCoordinate", 1),
      Step(fields, 2, ParseF64(At(fields, 2)), "InvalidCoordinate", 2),
      Step(fields, 3, ParseF64(At(fields, 3)), "InvalidAltitude", 3),
      Step(fields, 4, ParseF64(At(fields, 4)), "InvalidAltitude", 4)>>
        \o [i \in 1..6 |-> Step(fields, i + 5, ParseF64(At(fields, i + 5)),
                                "InvalidPositionVelocity", i + 5)]

\* impl TryFrom<&[&str]> for VelocityPositionSlowMessage (#SL)
VelocityPositionSlowMessage_try_from(fields) ==
    MinFields(fields, 12, "VelocityPositionSlow",
        <<Sender(fields, 3)>> \o VelocitySteps(fields))

\* impl TryFrom<&[&str]> for VelocityPositionFastMessage (^)
VelocityPositionFastMessage_try_from(fields) ==
    MinFields(fields, 12, "VelocityPositionFast",
        <<Sender(fields, 1)>> \o VelocitySteps(fields))

\* impl TryFrom<&[&str]> for KillMessage ($!!)
KillMessage_try_from(fields) ==
    MinFields(fields, 2, "Kill",
        <<Sender(fields, 3), Upper(fields, 1), Opt(fields, 2)>>)

\* impl TryFrom<&[&str]> for MetarRequestMessage ($AX)
MetarRequestMessage_try_from(fields) ==
    MinFields(fields, 4, "MetarRequest",
        <<Sender(fields, 3), Upper(fields, 1), Upper(fields, 3)>>)

\* impl TryFrom<&[&str]> for MetarResponseMessage ($AR)
MetarResponseMessage_try_from(fields) ==
    MinFields(fields, 4, "MetarResponse",
        <<Sender(fields, 3), Upper(fields, 1), Upper(fields, 3)>>)

\* impl TryFrom<&[&str]> for PingMessage ($PI)
PingMessage_try_from(fields) ==
    MinFields(fields, 3, "Ping",
        <<Sender(fields, 3), Upper(fields, 1),
          Step(fields, 2, parse_u64(At(fields, 2)), "InvalidPingTime", 2)>>)

\* impl TryFrom<&[&str]> for PongMessage ($PO)
PongMessage_try_from(fields) ==
    MinFields(fields, 3, "Pong",
        <<Sender(fields, 3), Upper(fields, 1),
          Step(fields, 2, parse_u64(At(fields, 2)), "InvalidPingTime", 2)>>)

\* impl TryFrom<&[&str]> for PlaneInfoRequestMessage (#SB ... PIR)
\* PlaneInfoRequestMessage::new keeps from and to as they are given.
PlaneInfoRequestMessage_try_from(fields) ==
    MinFields(fields, 3, "PlaneInfoRequest",
        <<IF ~IsCharBoundary(fields[1], 3)
          THEN Abort("byte index is not a char boundary")
          ELSE Ok(SliceFrom(fields[1], 3)),
          Text(fields, 1)>>)

\* impl From<&[&str]> for PlaneInfo: of the entries KEY=value with the given
\* key (in any letter case), the value of the last one.
PlaneInfoValue(entries, key) ==
    LET pairs == [i \in 1..Len(entries) |-> split(entries[i], {"="})]
        hits == {i \in 1..Len(entries) :
                    Len(pairs[i]) >= 2 /\ to_uppercase(pairs[i][1]) = Chars(key)}
    IN  IF hits = {} THEN <<>>
        ELSE <<pairs[CHOOSE i \in hits : \A j \in hits : j <= i][2]>>

PlaneInfo_from(entries) ==
    [equipment |-> PlaneInfoValue(entries, "EQUIPMENT"),
     airline |-> PlaneInfoValue(entries, "AIRLINE"),
     livery |-> PlaneInfoValue(entries, "LIVERY")]

\* impl TryFrom<&[&str]> for PlaneInfoResponseMessage (#SB ... PI)
PlaneInfoResponseMessage_try_from(fields) ==
    MinFields(fields, 5, "PlaneInfoResponse",
        <<Sender(fields, 3), Upper(fields, 1),
          Ok(PlaneInfo_from(SubSeq(fields, 5, Len(fields))))>>)

\* enum FsdError, by its code on the wire (2 and 5 are the same variant).
FsdErrorNames ==
    <<"CallsignInUse", "InvalidCallsign", "AlreadyRegistered", "SyntaxError",
      "InvalidCallsign", "InvalidCidPassword", "NoSuchCallsign", "NoFlightPlan",
      "NoWeatherProfile", "InvalidProtocolRevision", "RequestedLevelTooHigh",
      "ServerFull", "CertificateSuspended", "InvalidControl",
      "InvalidPositionForRating", "UnauthorisedClient", "AuthTimeOut">>

FsdErrorOf(code, fields) ==
    IF code \in 1..17
    THEN [error |-> FsdErrorNames[code],
          text |-> IF code \in 7..9 THEN to_uppercase(fields[4]) ELSE <<>>]
    ELSE [error |-> "Other", text |-> fields[5]]

\* impl TryFrom<&[&str]> for FsdErrorMessage ($ER)
FsdErrorMessage_try_from(fields) ==
    MinFields(fields, 5, "FsdError",
        <<Sender(fields, 3), Step(fields, 2, parse_u8(At(fields, 2)), "InvalidServerError", 2),
          IF ParseU8(fields[3]) # -1
          THEN Ok(FsdErrorOf(ParseU8(fields[3]), fields)) ELSE Nil,
          Upper(fields, 1)>>)

-----------------------------------------------------------------------------
(* structs.rs: FlightPlan *)

\* A number field of a flight plan: nothing stands for 0.
NumberOrZero(fields, i, r, err) ==
    IF At(fields, i) = <<>> THEN Ok(<<"0">>) ELSE Step(fields, i, r, err, i)

\* A minutes field read without the check of the 59: what would be wrong.
Minutes_Mutant(fields, i) ==
    LET mins == ParseU8(fields[i + 1])
    IN  IF fields[i + 1] = <<>> THEN Ok(0)
        ELSE IF mins = -1 THEN Err("InvalidTime", fields[i + 1])
        ELSE Ok(mins)

\* A minutes field of a flight plan: a u8 of at most 59.
Minutes(fields, i) ==
    LET mins == ParseU8(fields[i + 1])
    IN  IF fields[i + 1] = <<>> THEN Ok(0)
        ELSE IF mins = -1 THEN Err("InvalidTime", fields[i + 1])
        ELSE IF mins > 59 THEN Err("InvalidMinute", fields[i + 1])
        ELSE Ok(mins)

\* impl TryFrom<&[&str]> for FlightPlan: exactly fifteen fields; the numbers
\* are parsed first, then the flight rules, then the cruise level.
FlightPlan_try_from(fields, overflow_checks) ==
    IF Len(fields) # 15 THEN InvalidFieldCount(15, Len(fields))
    ELSE Build("FlightPlan",
            <<NumberOrZero(fields, 2, parse_u16(At(fields, 2)), "InvalidSpeed"),
              NumberOrZero(fields, 4, parse_u16(At(fields, 4)), "InvalidTime"),
              NumberOrZero(fields, 5, parse_u16(At(fields, 5)), "InvalidTime"),
              NumberOrZero(fields, 8, parse_u8(At(fields, 8)), "InvalidTime"),
              NumberOrZero(fields, 10, parse_u8(At(fields, 10)), "InvalidTime"),
              Minutes(fields, 9), Minutes(fields, 11),
              Enum(fields, 0, ParseFlightRules(At(fields, 0))),
              parse_altitude_build(fields[7], overflow_checks),
              Upper(fields, 1), Upper(fields, 3), Upper(fields, 7),
              Upper(fields, 12), Text(fields, 13), Upper(fields, 14)>>)

\* fields[i..].try_into()?: the flight plan in the fields from i on.
PlanFrom(fields, i, overflow_checks) ==
    FlightPlan_try_from(SubSeq(fields, i + 1, Len(fields)), overflow_checks)

\* check_exact_num_fields!, then the steps.
ExactFields(fields, count, kind, steps) ==
    IF Len(fields) # count THEN InvalidFieldCount(count, Len(fields))
    ELSE Build(kind, steps)

\* impl TryFrom<&[&str]> for FlightPlanMessage ($FP)
FlightPlanMessage_try_from(fields, overflow_checks) ==
    ExactFields(fields, 17, "FlightPlanMessage",
        <<Sender(fields, 3), Upper(fields, 1), PlanFrom(fields, 2, overflow_checks)>>)

\* impl TryFrom<&[&str]> for FlightPlanAmendmentMessage ($AM)
FlightPlanAmendmentMessage_try_from(fields, overflow_checks) ==
    ExactFields(fields, 18, "FlightPlanAmendment",
        <<Sender(fields, 3), Upper(fields, 1), Upper(fields, 2),
          PlanFrom(fields, 3, overflow_checks)>>)

-----------------------------------------------------------------------------
(* enums.rs: ScratchPad, VoiceCapability; util.rs: parse_new_atis *)

Pad(variant, value) == Ok([pad |-> variant, value |-> value])

\* s.strip_prefix(letter).map(str::parse::<u32>) gives Some(Ok(_)).
IsPadNumber(s, letter) ==
    s # <<>> /\ Head(s) = letter /\ ParseUnsigned(Tail(s), U32Max).tag = "Ok"

\* The words of the scratchpad: the text, the variant it is read as and the
\* variant's Operator or GroundState.
PadWord(text, variant, value) == [text |-> text, variant |-> variant, value |-> value]

PadWords ==
    {PadWord("/ASP=/", "SpeedOperator", "Exactly"),
     PadWord("/ASP-/", "SpeedOperator", "OrLess"),
     PadWord("/ASP+/", "SpeedOperator", "OrGreater"),
     PadWord("/ARC=/", "RateOfClimbDescentOperator", "Exactly"),
     PadWord("/ARC-/", "RateOfClimbDescentOperator", "OrLess"),
     PadWord("/ARC+/", "RateOfClimbDescentOperator", "OrGreater"),
     PadWord("GRP/S/", "CancelledStand", ""),
     PadWord("GRP/M/", "CancelledManualStand", ""),
     PadWord("NSTS", "GroundState", "NoState"),
     PadWord("NOSTATE", "GroundState", "NoState"),
     PadWord("ONFREQ", "GroundState", "OnFrequency"),
     PadWord("DE-ICE", "GroundState", "DeIcing"),
     PadWord("STUP", "GroundState", "Startup"),
     PadWord("ST-UP", "GroundState", "Startup"),
     PadWord("PUSH", "GroundState", "Pushback"),
     PadWord("TAXI", "GroundState", "Taxi"),
     PadWord("LINEUP", "GroundState", "LineUp"),
     PadWord("TXIN", "GroundState", "TaxiIn"),
     PadWord("DEPA", "GroundState", "TakeOff"),
     PadWord("PARK", "GroundState", "OnBlock"),
     PadWord("CLEA", "ClearanceReceived", ""),
     PadWord("NOTC", "ClearanceCancelled", "")}

\* impl FromStr for ScratchPad.  It never fails: a text that is nothing else
\* is plain text.
ScratchPad_from_str(s) ==
    IF IsPadNumber(s, "H") THEN Pad("Heading", ParseUnsigned(Tail(s), U32Max).val)
    ELSE IF IsPadNumber(s, "R")
    THEN Pad("RateOfClimbDescent", ParseUnsigned(Tail(s), U32Max).val)
    ELSE IF IsPadNumber(s, "S") THEN Pad("Speed", ParseUnsigned(Tail(s), U32Max).val)
    ELSE IF IsPadNumber(s, "M") THEN Pad("Mach", ParseUnsigned(Tail(s), U32Max).val)
    ELSE IF ByteLen(s) > 6 /\ starts_with(s, Chars("GRP/S/"))
    THEN Pad("Stand", SliceFrom(s, 6))
    ELSE IF ByteLen(s) > 6 /\ starts_with(s, Chars("GRP/M/"))
    THEN Pad("ManualStand", <<split(s, {"/"})[1], split(s, {"/"})[2]>>)
    ELSE IF \E w \in PadWords : Chars(w.text) = s
    THEN LET w == CHOOSE w \in PadWords : Chars(w.text) = s
         IN  Pad(w.variant, w.value)
    ELSE Pad("PlainTextOrDirect", s)

\* impl FromStr for VoiceCapability: the text is lowercased first, and the
\* error carries the lowercased text.
VoiceCapability_from_str(s) ==
    IF s = <<>> THEN Ok(<<>>)
    ELSE IF to_lowercase(s) \in {<<"v">>, <<"t">>, <<"r">>} THEN Ok(to_lowercase(s))
    ELSE Err("InvalidVoiceCapability", to_lowercase(s))

\* impl Display for VoiceCapability: nothing for Unknown, else the letter.
VoiceCapability_fmt(v) == v

\* str::trim, of spaces.
RECURSIVE trim(_)
trim(t) ==
    IF t # <<>> /\ Head(t) = " " THEN trim(Tail(t))
    ELSE IF t # <<>> /\ t[Len(t)] = " " THEN trim(SubSeq(t, 1, Len(t) - 1))
    ELSE t

\* util::parse_new_atis: input[0] ends in the ATIS letter, input[1] is wind
\* and pressure with a space or a dash between them.  split[1] is read
\* whether or not there was a separator.
\* (atis_letter as u8) in 65..=90: the cast keeps the low byte of the code
\* point, so the test takes the letters A to Z and every character whose
\* code point ends in the byte of one, as U+0141 and U+0142 do.
IsAtisLetter(c) == InSeq(c, UpperLetters) \/ c \in {LStroke, LStrokeSmall}

parse_new_atis(input) ==
    IF Len(input) < 2 THEN IndexAbort
    ELSE LET first == to_uppercase(input[1])
             last == to_uppercase(trim(input[2]))
             bad == Err("InvalidNewAtisMessage", first \o <<":">> \o last)
             pieces == split(last, {" ", "-"})
         IN  IF first = <<>> THEN bad
             ELSE IF ~IsAtisLetter(first[Len(first)]) THEN bad
             ELSE IF ByteLen(pieces[1]) < 7 THEN bad
             ELSE IF Len(pieces) < 2 THEN IndexAbort
             ELSE IF ByteLen(pieces[2]) < 4 THEN bad
             ELSE Ok(<<first[Len(first)], pieces[1], pieces[2]>>)

\* impl FromStr for AircraftConfig.  The JSON reader is serde_json; of the
\* texts the model meets, these are the ones it reads as a configuration,
\* with the configuration read.
ConfigTexts ==
    {[text |-> Chars("{\"config\":{}}"), gear_down |-> <<>>],
     [text |-> Chars("{\"config\":{\"gear_down\":true}}"), gear_down |-> <<TRUE>>]}

AircraftConfig_from_str(s) ==
    IF \E c \in ConfigTexts : c.text = s
    THEN Ok([gear_down |-> (CHOOSE c \in ConfigTexts : c.text = s).gear_down])
    ELSE Err("InvalidAircraftConfig", s)

\* impl Display for AircraftConfig: the JSON object {"config": self}, with
\* the fields that are None left out.
AircraftConfig_fmt(config) ==
    Chars("{\"config\":{")
        \o (IF config.gear_down = <<>> THEN <<>> ELSE Chars("\"gear_down\":true"))
        \o Chars("}}")

\* NaiveDateTime::parse_from_str(t, "%Y%m%d%H%M%S") of chrono, for a text of
\* fourteen digits: the year and the ten digits of month to second.
InRange(d, low, high) == DecVal(d) >= low /\ DecVal(d) <= high

DaysIn(year, month) ==
    IF month \in {4, 6, 9, 11} THEN 30
    ELSE IF month # 2 THEN 31
    ELSE IF year % 4 = 0 /\ (year % 100 # 0 \/ year % 400 = 0) THEN 29
    ELSE 28

SimTime_parse(t) ==
    IF /\ Len(t) = 14 /\ AllDigits(t)
       /\ InRange(SubSeq(t, 5, 6), 1, 12)
       /\ InRange(SubSeq(t, 7, 8), 1,
                  DaysIn(DecVal(SubSeq(t, 1, 4)), DecVal(SubSeq(t, 5, 6))))
       /\ InRange(SubSeq(t, 9, 10), 0, 23) /\ InRange(SubSeq(t, 11, 12), 0, 59)
       /\ InRange(SubSeq(t, 13, 14), 0, 59)
    THEN Ok([year |-> SubSeq(t, 1, 4), rest |-> SubSeq(t, 5, 14)])
    ELSE Err("InvalidTime", t)

\* TransponderCode::try_from_bcd_format is not among the sources: a call of
\* it is a result of its own kind, neither a success nor a failure.
Unmodelled == [tag |-> "Unmodelled", why |-> "TransponderCode::try_from_bcd_format"]

-----------------------------------------------------------------------------
(* messages.rs: ClientQueryMessage *)

Query(name, args) == Ok([query |-> name, args |-> args])

\* str::contains
Contains(t, p) == \E i \in 1..(Len(t) - Len(p) + 1) : SubSeq(t, i, i + Len(p) - 1) = p

\* The queries that are a tag and nothing else.
PlainQueries ==
    {<<"C?", "Com1Freq">>, <<"IP", "PublicIP">>, <<"ATIS", "ATIS">>,
     <<"RN", "RealName">>, <<"SV", "Server">>, <<"BY", "RequestRelief">>,
     <<"CAPS", "Capabilities">>, <<"HI", "CancelRequestRelief">>, <<"INF", "INF">>}

\* The queries about one callsign, with the fields each asks for and the
\* count its InvalidFieldCount reports as found (3 for ATC and FP, whatever
\* the length).
SubjectQueries ==
    {<<"ATC", "IsValidATC">>, <<"FP", "FlightPlan">>, <<"WH", "WhoHas">>,
     <<"DR", "DropTrack">>, <<"IT", "InitiateTrack">>}

\* A query of a subject callsign and one value: check_min_num_fields!(5),
\* then the value, then the subject uppercased.
SubjectAnd(fields, name, value) ==
    IF Len(fields) < 5 THEN InvalidFieldCount(5, Len(fields))
    ELSE IF value.tag # "Ok" THEN value
    ELSE Query(name, <<to_uppercase(fields[4]), value.val>>)

\* HLP and NOHLP: the message is fields.get(3) unless that is empty.
HelpQuery(fields, name) ==
    Query(name, IF Len(fields) > 3 /\ fields[4] # <<>> THEN <<fields[4]>> ELSE <<>>)

\* The match on fields[2] of ClientQueryMessage::try_from.
ClientQueryType_of(fields, overflow_checks) ==
    LET tag == fields[3]
        n == Len(fields)
        Is(x) == tag = Chars(x)
    IN  IF \E q \in PlainQueries : Is(q[1])
        THEN Query((CHOOSE q \in PlainQueries : Is(q[1]))[2], <<>>)
        ELSE IF \E q \in SubjectQueries : Is(q[1])
        THEN IF n < 4 THEN InvalidFieldCount(4, IF Is("ATC") \/ Is("FP") THEN 3 ELSE n)
             ELSE Query((CHOOSE q \in SubjectQueries : Is(q[1]))[2],
                        <<to_uppercase(fields[4])>>)
        ELSE IF Is("IPC")
        THEN IF n < 6 THEN InvalidFieldCount(6, 3)
             ELSE IF fields[4] # <<"W">> \/ fields[5] # Chars("852")
             THEN Err("UnknownMessageType",
                      Chars("IPC:") \o join(SubSeq(fields, 1, 3), <<":">>))
             ELSE Unmodelled
        ELSE IF Is("ACC")
        THEN IF n < 4 THEN InvalidFieldCount(4, 3)
             ELSE IF Contains(fields[4], Chars("request"))
             THEN Query("AircraftConfigurationRequest", <<>>)
             ELSE LET config == AircraftConfig_from_str(Rest(fields, 3).val)
                  IN  IF config.tag # "Ok" THEN config
                      ELSE Query("AircraftConfigurationResponse", <<config.val>>)
        ELSE IF Is("HLP") THEN HelpQuery(fields, "HelpRequest")
        ELSE IF Is("NOHLP") THEN HelpQuery(fields, "CancelHelpRequest")
        ELSE IF Is("SC")
        THEN SubjectAnd(fields, "SetScratchpad", ScratchPad_from_str(fields[5]))
        ELSE IF Is("FA")
        THEN SubjectAnd(fields, "SetFinalAltitude",
                        parse_altitude_build(fields[5], overflow_checks))
        ELSE IF Is("TA")
        THEN SubjectAnd(fields, "SetTempAltitude",
                        parse_altitude_build(fields[5], overflow_checks))
        ELSE IF Is("BC")
        THEN SubjectAnd(fields, "SetBeaconCode", TransponderCode_from_str(fields[5]))
        ELSE IF Is("VT")
        THEN SubjectAnd(fields, "SetVoiceType", VoiceCapability_from_str(fields[5]))
        ELSE IF Is("HT")
        THEN SubjectAnd(fields, "AcceptHandoff", Ok(to_uppercase(fields[5])))
        ELSE IF Is("NEWATIS")
        THEN IF n < 5 THEN InvalidFieldCount(5, n)
             ELSE LET atis == parse_new_atis(SubSeq(fields, 4, n))
                  IN  IF atis.tag # "Ok" THEN atis ELSE Query("NewATIS", atis.val)
        ELSE IF Is("SIMTIME")
        THEN IF n < 4 THEN InvalidFieldCount(4, n)
             ELSE LET time == SimTime_parse(fields[4])
                  IN  IF time.tag # "Ok" THEN time ELSE Query("SimTime", <<time.val>>)
        ELSE Err("UnknownMessageType", tag)

\* impl TryFrom<&[&str]> for ClientQueryMessage ($CQ)
ClientQueryMessage_try_from(fields, overflow_checks) ==
    MinFields(fields, 3, "ClientQuery",
        <<Sender(fields, 3), ClientQueryType_of(fields, overflow_checks),
          Upper(fields, 1)>>)

\* impl Display for Operator and for GroundState
OperatorText == [Exactly |-> "=", OrLess |-> "-", OrGreater |-> "+"]

GroundStateText ==
    [NoState |-> "NSTS", OnFrequency |-> "ONFREQ", DeIcing |-> "DE-ICE",
     Startup |-> "STUP", Pushback |-> "PUSH", Taxi |-> "TAXI", LineUp |-> "LINEUP",
     TakeOff |-> "DEPA", TaxiIn |-> "TXIN", OnBlock |-> "PARK"]

\* impl Display for ScratchPad.  Mach is written without its letter and
\* CancelledManualStand without its last stroke.
ScratchPad_fmt(p) ==
    CASE p.pad = "RateOfClimbDescent" -> <<"R">> \o p.value
      [] p.pad = "Heading" -> <<"H">> \o p.value
      [] p.pad = "Speed" -> <<"S">> \o p.value
      [] p.pad = "Mach" -> p.value
      [] p.pad = "SpeedOperator" ->
            Chars("/ASP") \o Chars(OperatorText[p.value]) \o <<"/">>
      [] p.pad = "RateOfClimbDescentOperator" ->
            Chars("/ARC") \o Chars(OperatorText[p.value]) \o <<"/">>
      [] p.pad = "PlainTextOrDirect" -> p.value
      [] p.pad = "Stand" -> Chars("GRP/S/") \o p.value
      [] p.pad = "CancelledStand" -> Chars("GRP/S/")
      [] p.pad = "ManualStand" ->
            Chars("GRP/M/") \o p.value[1] \o <<"/">> \o p.value[2]
      [] p.pad = "CancelledManualStand" -> Chars("GRP/M")
      [] p.pad = "GroundState" -> Chars(GroundStateText[p.value])
      [] p.pad = "ClearanceReceived" -> Chars("CLEA")
      [] p.pad = "ClearanceCancelled" -> Chars("NOTC")

\* The tag ClientQueryType::fmt writes for a query of one value after the
\* subject, and the value as its Display writes it.
ValueQueries ==
    [SetFinalAltitude |-> "FA", SetTempAltitude |-> "TA", SetBeaconCode |-> "BC",
     SetScratchpad |-> "SC", SetVoiceType |-> "VT", AcceptHandoff |-> "HT"]

ValueText(name, value) ==
    CASE name = "SetBeaconCode" -> TransponderCode_fmt(value)
      [] name = "SetScratchpad" -> ScratchPad_fmt(value)
      [] name = "SetVoiceType" -> VoiceCapability_fmt(value)
      [] OTHER -> value

\* impl Display for ClientQueryType, with the tag of ClientQueryType::WhoHas
\* set wrong.
ClientQueryType_fmt_Mutant(q) ==
    IF q.query = "WhoHas" THEN Chars("IT:") \o q.args[1] ELSE Chars(q.query)

\* impl Display for ClientQueryType
ClientQueryType_fmt(q) ==
    LET name == q.query
        a == q.args
        tagged == PlainQueries \cup SubjectQueries
            \cup {<<"HLP", "HelpRequest">>, <<"NOHLP", "CancelHelpRequest">>}
    IN  IF \E t \in tagged : t[2] = name
        THEN Chars((CHOOSE t \in tagged : t[2] = name)[1])
                 \o (IF a = <<>> THEN <<>> ELSE <<":">> \o a[1])
        ELSE IF name \in DOMAIN ValueQueries
        THEN Chars(ValueQueries[name]) \o <<":">> \o a[1] \o <<":">>
                 \o ValueText(name, a[2])
        ELSE IF name = "AircraftConfigurationRequest"
        THEN Chars("ACC:{\"request\":\"full\"}")
        ELSE IF name = "AircraftConfigurationResponse"
        THEN Chars("ACC:") \o AircraftConfig_fmt(a[1])
        ELSE IF name = "NewATIS"
        THEN Chars("NEWATIS:ATIS ") \o <<a[1]>> \o Chars(":  ") \o a[2]
                 \o Chars(" - ") \o a[3]
        ELSE IF name = "NewInfo"
        THEN Chars("NEWINFO:") \o <<a[1]>>
        ELSE Chars("SIMTIME:Y") \o a[1].rest

\* impl Display for ClientQueryMessage: "$CQ{}:{}:{}"
ClientQueryMessage_fmt(m) ==
    Chars("$CQ") \o m.body[1] \o <<":">> \o m.body[3] \o <<":">>
        \o ClientQueryType_fmt(m.body[2])

-----------------------------------------------------------------------------
(* messages.rs: ClientQueryResponseMessage, SharedStateMessage, handoffs *)

Response(name, args) == Ok([response |-> name, args |-> args])

\* enum ClientCapability, by the keys FromStr reads.
CapabilityKeys ==
    {"VERSION", "ATCINFO", "MODELDESC", "ACCONFIG", "VISUPDATE", "RADARUPDATE",
     "ATCMULTI", "SECPOS", "ICAOEQ", "FASTPOS", "ONGOINGCOORD", "INTERIMPOS",
     "STEALTH", "TEAMSPEAK", "NEWATIS", "MUMBLE", "GLOBALDATA", "SIMULATED",
     "OBSPILOT"}

\* util::read_capabilities: the set of the capabilities whose entry is KEY=1.
read_capabilities(caps_str) ==
    {k \in CapabilityKeys :
        \E i \in 1..Len(caps_str) :
            LET pair == split(caps_str[i], {"="})
            IN  Len(pair) >= 2 /\ to_uppercase(pair[1]) = Chars(k) /\ pair[2] = <<"1">>}

\* An ATIS line of a response: check_min_num_fields!(5), then the match on
\* fields[3].
AtisLine_of(fields) ==
    LET kind == fields[4]
        text == fields[5]
        time == IF text # <<>> /\ text[Len(text)] = "z"
                THEN SubSeq(text, 1, Len(text) - 1) ELSE text
    IN  IF Len(fields) < 5 THEN InvalidFieldCount(5, Len(fields))
        ELSE IF kind = <<"V">> THEN Response("ATIS", <<"VoiceServer", text>>)
        ELSE IF kind = <<"T">>
        THEN Response("ATIS", <<"TextLine", Rest(fields, 4).val>>)
        ELSE IF kind = <<"Z">>
        THEN Response("ATIS",
                 <<"LogoffTime",
                   IF ParseU16(time) = -1 THEN <<>> ELSE <<ParseU16(time)>> >>)
        ELSE IF kind = <<"E">>
        THEN IF ParseUnsigned(text, U64Max).tag # "Ok"
             THEN Err("InvalidATISLine", text)
             ELSE Response("ATIS", <<"EndMarker", ParseUnsigned(text, U64Max).val>>)
        ELSE Err("InvalidATISLine", kind)

\* The match on fields[2] of ClientQueryResponseMessage::try_from.  The RN
\* branch asks for four fields and reads six.
ClientResponseType_of(fields) ==
    LET tag == fields[3]
        n == Len(fields)
        Is(x) == tag = Chars(x)
    IN  IF Is("C?")
        THEN LET freq == try_from_human_readable_string(fields[4])
             IN  IF freq.tag # "Ok" THEN freq ELSE Response("Com1Freq", <<freq.val>>)
        ELSE IF Is("ATIS") THEN AtisLine_of(fields)
        ELSE IF Is("RN")
        THEN IF n < 6 THEN IndexAbort
             ELSE IF ParseU8(fields[6]) = -1 THEN Err("InvalidRating", fields[6])
             ELSE Response("RealName", <<fields[4], fields[5], ParseU8(fields[6])>>)
        ELSE IF Is("IP") THEN Response("PublicIP", <<fields[4]>>)
        ELSE IF Is("SV") THEN Response("Server", <<fields[4]>>)
        ELSE IF Is("ATC")
        THEN IF n < 5 THEN InvalidFieldCount(5, n)
             ELSE IF to_uppercase(fields[4]) \notin {<<"Y">>, <<"N">>}
             THEN Err("InvalidValidAtcStatus", fields[4])
             ELSE Response("IsValidATC", <<fields[5], to_uppercase(fields[4]) = <<"Y">> >>)
        ELSE IF Is("CAPS")
        THEN Response("Capabilities", <<read_capabilities(SubSeq(fields, 4, n))>>)
        ELSE Err("UnknownMessageType", tag)

\* impl TryFrom<&[&str]> for ClientQueryResponseMessage ($CR)
ClientQueryResponseMessage_try_from(fields) ==
    MinFields(fields, 4, "ClientQueryResponse",
        <<Sender(fields, 3), ClientResponseType_of(fields), Upper(fields, 1)>>)

\* impl TryFrom<&[&str]> for HandoffOfferMessage ($HO)
HandoffOfferMessage_try_from(fields) ==
    MinFields(fields, 3, "HandoffOffer",
        <<Sender(fields, 3), Upper(fields, 1), Upper(fields, 2)>>)

\* impl TryFrom<&[&str]> for HandoffAcceptMessage ($HA)
HandoffAcceptMessage_try_from(fields) ==
    MinFields(fields, 3, "HandoffAccept",
        <<Sender(fields, 3), Upper(fields, 1), Upper(fields, 2)>>)

Shared(name, args) == Ok([state |-> name, args |-> args])

\* A shared state of a subject callsign and one value:
\* check_min_num_fields!(6), then the value of fields[5], then the subject.
SharedAnd(fields, name, value) ==
    IF Len(fields) < 6 THEN InvalidFieldCount(6, Len(fields))
    ELSE IF value.tag # "Ok" THEN value
    ELSE Shared(name, <<to_uppercase(fields[5]), value.val>>)

\* The match on fields[3] of SharedStateMessage::try_from.  The BC branch
\* asks for four fields and reads six.
SharedStateType_of(fields, overflow_checks) ==
    LET tag == fields[4]
        n == Len(fields)
        Is(x) == tag = Chars(x)
    IN  IF Is("VER") THEN Shared("Version", <<>>)
        ELSE IF Is("ID") THEN Shared("ID", <<>>)
        ELSE IF Is("DI") THEN Shared("DI", <<>>)
        ELSE IF Is("IH") \/ Is("HC")
        THEN IF n < 5 THEN InvalidFieldCount(5, n)
             ELSE Shared(IF Is("IH") THEN "IHave" ELSE "HandoffCancel",
                         <<to_uppercase(fields[5])>>)
        ELSE IF Is("SC")
        THEN SharedAnd(fields, "ScratchPad", ScratchPad_from_str(fields[6]))
        ELSE IF Is("TA")
        THEN SharedAnd(fields, "TempAltitude",
                       parse_altitude_build(fields[6], overflow_checks))
        ELSE IF Is("FA")
        THEN SharedAnd(fields, "FinalAltitude",
                       parse_altitude_build(fields[6], overflow_checks))
        ELSE IF Is("VT")
        THEN SharedAnd(fields, "VoiceType", VoiceCapability_from_str(fields[6]))
        ELSE IF Is("BC")
        THEN IF n < 6 THEN IndexAbort
             ELSE IF TransponderCode_from_str(fields[6]).tag # "Ok"
             THEN TransponderCode_from_str(fields[6])
             ELSE Shared("BeaconCode",
                         <<to_uppercase(fields[5]), TransponderCode_from_str(fields[6]).val>>)
        ELSE Err("InvalidSharedStateType", tag)

\* impl TryFrom<&[&str]> for SharedStateMessage (#PC)
SharedStateMessage_try_from(fields, overflow_checks) ==
    MinFields(fields, 4, "SharedState",
        <<Sender(fields, 3), SharedStateType_of(fields, overflow_checks),
          Upper(fields, 1)>>)

-----------------------------------------------------------------------------
(* enums.rs: FsdMessageType::identify; lib.rs: parse_message *)

\* The prefixes identify tests one after the other once a line has two
\* fields or more, each with the message its parser builds.
ByPrefix(prefix, fields, overflow_checks) ==
    CASE prefix = "#DA" -> AtcDeregisterMessage_try_from(fields)
      [] prefix = "#DP" -> PilotDeregisterMessage_try_from(fields)
      [] prefix = "#AA" -> AtcRegisterMessage_try_from(fields)
      [] prefix = "#AP" -> PilotRegisterMessage_try_from(fields)
      [] prefix = "%" -> AtcPositionUpdateMessage_try_from(fields)
      [] prefix = "'" -> AtcSecondaryVisCentreMessage_try_from(fields)
      [] prefix = "@" -> PilotPositionUpdateMessage_try_from(fields)
      [] prefix = "$ZC" -> AuthenticationChallengeMessage_try_from(fields)
      [] prefix = "$ZR" -> AuthenticationResponseMessage_try_from(fields)
      [] prefix = "$ER" -> FsdErrorMessage_try_from(fields)
      [] prefix = "$HO" -> HandoffOfferMessage_try_from(fields)
      [] prefix = "$HA" -> HandoffAcceptMessage_try_from(fields)
      [] prefix = "#TM" ->
            IF starts_with(fields[2], <<"@">>) THEN FrequencyMessage_try_from(fields)
            ELSE TextMessage_try_from(fields)
      [] prefix = "$XX" -> ChangeServerMessage_try_from(fields)
      [] prefix = "$FP" -> FlightPlanMessage_try_from(fields, overflow_checks)
      [] prefix = "$AM" -> FlightPlanAmendmentMessage_try_from(fields, overflow_checks)
      [] prefix = "$DI" -> InitialServerHandshakeMessage_try_from(fields)
      [] prefix = "$ID" -> InitialClientHandshakeMessage_try_from(fields)
      [] prefix = "$SF" -> SendFastPositionUpdatesMessage_try_from(fields)
      [] prefix = "#ST" -> VelocityPositionStoppedMessage_try_from(fields)
      [] prefix = "#DL" -> Build("ServerHeartbeat", <<>>)
      [] prefix = "#SL" -> VelocityPositionSlowMessage_try_from(fields)
      [] prefix = "#PC" -> SharedStateMessage_try_from(fields, overflow_checks)
      [] prefix = "^" -> VelocityPositionFastMessage_try_from(fields)
      [] prefix = "$!!" -> KillMessage_try_from(fields)
      [] prefix = "$AX" -> MetarRequestMessage_try_from(fields)
      [] prefix = "$AR" -> MetarResponseMessage_try_from(fields)
      [] prefix = "$CQ" -> ClientQueryMessage_try_from(fields, overflow_checks)
      [] prefix = "$CR" -> ClientQueryResponseMessage_try_from(fields)
      [] prefix = "$PI" -> PingMessage_try_from(fields)
      [] prefix = "$PO" -> PongMessage_try_from(fields)

Prefixes ==
    <<"#DA", "#DP", "#AA", "#AP", "%", "'", "@", "$ZC", "$ZR", "$ER", "$HO", "$HA",
      "#TM", "$XX", "$FP", "$AM", "$DI", "$ID", "$SF", "#ST", "#DL", "#SL", "#PC",
      "^", "$!!", "$AX", "$AR", "$CQ", "$CR", "$PI", "$PO">>

\* The #SB branch, the last one: fields[2] is read whatever the length, and
\* a value that is none of the four falls through to the end of identify.
PlaneInfoBranch(message, fields) ==
    IF Len(fields) < 3 THEN IndexAbort
    ELSE IF fields[3] = Chars("PIR") THEN PlaneInfoRequestMessage_try_from(fields)
    ELSE IF fields[3] = Chars("PI") THEN PlaneInfoResponseMessage_try_from(fields)
    ELSE IF fields[3] = Chars("FSIPI")
    THEN Build("FSInnPlaneInformationResponse", <<>>)
    ELSE IF fields[3] = Chars("FSIPIR")
    THEN Build("FSInnPlaneInformationRequest", <<>>)
    ELSE Err("UnknownMessageType", message)

\* FsdMessageType::identify
identify(message, overflow_checks) ==
    LET fields == split(message, {":"})
        Starts(p) == starts_with(fields[1], Chars(p))
        hits == {i \in 1..Len(Prefixes) : Starts(Prefixes[i])}
        first == CHOOSE i \in hits : \A j \in hits : i <= j
    IN  IF Len(fields) < 2
        THEN IF Starts("#DA") THEN AtcDeregisterMessage_try_from(fields)
             ELSE IF Starts("#DP") THEN PilotDeregisterMessage_try_from(fields)
             ELSE Err("UnknownMessageType", message)
        ELSE IF hits # {} THEN ByPrefix(Prefixes[first], fields, overflow_checks)
        ELSE IF Starts("#SB") THEN PlaneInfoBranch(message, fields)
        ELSE Err("UnknownMessageType", message)

\* parse_message
parse_message(message, overflow_checks) == identify(message, overflow_checks)

-----------------------------------------------------------------------------
(* The lines the dispatcher is driven with *)

\* How many fields a line may have beyond those of the well-formed line it
\* is made of.
MaxExtraFields == 1

\* One well-formed line of every kind and sub-kind of message.
WellFormed ==
    {"#AAEGLL_TWR:SERVER:Name:1234:pw:5:100",
     "#APBAW1:SERVER:1234:pw:1:100:2:Name",
     "#DAEGLL_TWR:1234",
     "#DPBAW1:1234",
     "%EGLL_TWR:18300:4:50:5:51.5:-0.4:0",
     "'EGLL_TWR:0:51.5:-0.4",
     "@N:BAW1:1234:1:51.5:-0.4:35000:420:4261414408:50",
     "$ZCSERVER:BAW1:abc",
     "$ZRBAW1:SERVER:abc",
     "$ERserver:BAW1:7:baw2:No such callsign",
     "$ERserver:BAW1:18:x:other",
     "$HOEGLL_TWR:EGKK_TWR:BAW1",
     "$HAEGLL_TWR:EGKK_TWR:BAW1",
     "#TMBAW1:EGLL_TWR:hello",
     "#TMBAW1:@18300:hello",
     "$XXSERVER:BAW1:host",
     "$FPBAW1:*A:I:B738:420:EGLL:1200:1200:FL350:EGKK:1:30:2:45:EGCC:rmk:route",
     "$AMEGLL_TWR:SERVER:BAW1:I:B738:420:EGLL:1200:1200:350:EGKK:1:30:2:45:EGCC:rmk:route",
     "$DISERVER:CLIENT:VATSIM FSD V3.13:token",
     "$IDBAW1:SERVER:69d7:client:1:2:1234:sysuid:key",
     "$SFSERVER:BAW1:1",
     "#STBAW1:51.5:-0.4:100:0:4261414408:0.5",
     "#DLSERVER:x",
     "#SLBAW1:51.5:-0.4:100:0:4261414408:1:1:1:1:1:1:0.5",
     "^BAW1:51.5:-0.4:100:0:4261414408:1:1:1:1:1:1:0.5",
     "$!!SERVER:BAW1:reason",
     "$AXBAW1:SERVER:METAR:EGLL",
     "$ARSERVER:BAW1:METAR:EGLL 1200Z",
     "$PIBAW1:SERVER:12345",
     "$POSERVER:BAW1:12345",
     "#SBBAW1:BAW2:PIR",
     "#SBBAW1:BAW2:PI:GEN:EQUIPMENT=B738:airline=BAW:LIVERY",
     "#SBBAW1:BAW2:FSIPI:x",
     "#SBBAW1:BAW2:FSIPIR:x",
     "#SBBAW1:BAW2:XX",
     "#PCEGLL_TWR:EGKK_TWR:CCP:VER",
     "#PCEGLL_TWR:EGKK_TWR:CCP:ID",
     "#PCEGLL_TWR:EGKK_TWR:CCP:DI",
     "#PCEGLL_TWR:EGKK_TWR:CCP:IH:BAW1",
     "#PCEGLL_TWR:EGKK_TWR:CCP:HC:BAW1",
     "#PCEGLL_TWR:EGKK_TWR:CCP:SC:BAW1:H090",
     "#PCEGLL_TWR:EGKK_TWR:CCP:TA:BAW1:FL100",
     "#PCEGLL_TWR:EGKK_TWR:CCP:FA:BAW1:35000",
     "#PCEGLL_TWR:EGKK_TWR:CCP:VT:BAW1:v",
     "#PCEGLL_TWR:EGKK_TWR:CCP:BC:BAW1:1234",
     "#PCEGLL_TWR:EGKK_TWR:CCP:PT:BAW1",
     "$CREGLL_TWR:BAW1:C?:118.300",
     "$CREGLL_TWR:BAW1:ATIS:V:voice",
     "$CREGLL_TWR:BAW1:ATIS:T:text:more",
     "$CREGLL_TWR:BAW1:ATIS:Z:1200z",
     "$CREGLL_TWR:BAW1:ATIS:E:4",
     "$CREGLL_TWR:BAW1:RN:Name:info:1",
     "$CREGLL_TWR:BAW1:IP:1.2.3.4",
     "$CREGLL_TWR:BAW1:SV:server",
     "$CRSERVER:BAW1:ATC:Y:EGLL_TWR",
     "$CRBAW1:EGLL_TWR:CAPS:ATCINFO=1:secpos=1:STEALTH=0",
     "$CRBAW1:EGLL_TWR:XX:x",
     "XYZ:a:b"}

\* The client queries, one well-formed line of every sub-kind.
WellFormedQueries ==
    {"$CQBAW1:EGLL_TWR:C?", "$CQBAW1:SERVER:IP", "$CQBAW1:EGLL_TWR:ATIS",
     "$CQBAW1:EGLL_TWR:RN", "$CQBAW1:SERVER:SV", "$CQEGLL_TWR:EGKK_TWR:BY",
     "$CQBAW1:EGLL_TWR:CAPS", "$CQEGLL_TWR:EGKK_TWR:HI", "$CQBAW1:EGLL_TWR:INF",
     "$CQEGLL_TWR:SERVER:ATC:EGKK_TWR", "$CQEGLL_TWR:SERVER:FP:BAW1",
     "$CQEHAM_GND:@94835:WH:KLM167", "$CQEGLL_TWR:@94835:DR:BAW1",
     "$CQEGLL_TWR:@94835:IT:BAW1", "$CQserver:N194Q:IPC:W:852:8704",
     "$CQBAW1:@94836:ACC:{\"request\":\"full\"}",
     "$CQBAW1:@94836:ACC:{\"config\":{\"gear_down\":true}}",
     "$CQEGLL_TWR:@94835:HLP:msg", "$CQEGLL_TWR:@94835:NOHLP",
     "$CQEGLL_TWR:@94835:SC:BAW1:H090", "$CQEGLL_TWR:@94835:SC:BAW1:M78",
     "$CQEGLL_TWR:@94835:SC:BAW1:GRP/M/EGLL/12", "$CQEGLL_TWR:@94835:SC:BAW1:NOSTATE",
     "$CQEGLL_TWR:@94835:FA:BAW1:FL350", "$CQEGLL_TWR:@94835:TA:BAW1:5000",
     "$CQEGLL_TWR:@94835:BC:BAW1:1234", "$CQEGLL_TWR:@94835:VT:BAW1:v",
     "$CQEGLL_TWR:@94835:HT:BAW1:EGKK_TWR",
     "$CQEGLL_ATIS:@94835:NEWATIS:ATIS A:36010KT-1013",
     "$CQEGLL_ATIS:@94835:NEWATIS:ATIS A:  36010KT - 1013",
     "$CQEGLL_ATIS:@94835:NEWATIS:ATIS A:36010KT",
     "$CQSERVER:BAW1:SIMTIME:20240229120000", "$CQBAW1:EGLL_TWR:XX"}

\* What a field of a well-formed line is replaced with: nothing, a text
\* that is no number, a frequency list with a character of two bytes in
\* it, and a flight level whose hundredfold passes 32 bits.
BadFields ==
    {<<>>, <<"x">>, <<"@", "1", EAcute, "0", "0">>, Chars("FL42949673")}

\* The well-formed line cut or filled up to n fields ("x" for a field it
\* has not), with field i replaced (i = 1: none is).
Varied(fields, n, i, b) ==
    [k \in 1..n |-> IF k = i /\ i > 1 THEN b
                    ELSE IF k <= Len(fields) THEN fields[k]
                    ELSE <<"x">>]

LinesOf(line) ==
    LET fields == split(Chars(line), {":"})
    IN  {join(Varied(fields, n, i, b), <<":">>) :
            n \in 1..(Len(fields) + MaxExtraFields),
            i \in 1..(Len(fields) + MaxExtraFields),
            b \in BadFields}

\* Who-has queries of every combination of a few callsigns, uppercase or not.
Callsigns ==
    {Chars("EHAM_GND"), Chars("@94835"), Chars("KLM167"), Chars("klm167"), <<>>,
     <<EAcuteCapital>>, <<FlLigature, "Y">>}

WhoHasLines ==
    {Chars("$CQ") \o from \o <<":">> \o to \o Chars(":WH:") \o subject :
        from \in Callsigns, to \in Callsigns, subject \in Callsigns}

\* Lines whose callsigns are written in lowercase.
LowercaseLines ==
    {Chars("#SBbaw1:baw2:PIR"), Chars("#SBbaw1:baw2:PI:GEN:EQUIPMENT=B738"),
     Chars("$CRserver:baw1:ATC:Y:egll_twr"), Chars("$CQegll_twr:server:FP:baw1"),
     Chars("#PCegll_twr:egll_app:CCP:IH:baw1")}

\* Lines with a frequency, an elevation, a transponder code or a coordinate
\* that is none.
MalformedLines ==
    {Chars("%EGLL_TWR:1830:4:50:5:51.5:-0.4:0"),
     Chars("%EGLL_TWR:18300&1830:4:50:5:51.5:-0.4:0"),
     Chars("%EGLL_TWR:18300:4:50:5:51.5:-0.4:12ft"),
     Chars("#TMBAW1:@18300&@1830:hello"), Chars("#TMBAW1:@1830:hello"),
     Chars("$CQEGLL_TWR:@94835:BC:BAW1:1288"), Chars("'EGLL_TWR:0:51.5:west")}

DispatchLines ==
    UNION {LinesOf(line) : line \in WellFormed \cup WellFormedQueries}
        \cup WhoHasLines \cup LowercaseLines \cup MalformedLines

InitDispatch ==
    /\ pc = "start"
    /\ call \in [fn : {"parse_message"}, text : DispatchLines,
                 overflow_checks : BOOLEAN]
    /\ res = Nil
    /\ out = Nil
    /\ back = Nil

\* parse_message(line)
Dispatch ==
    /\ pc = "start"
    /\ res' = parse_message(call.text, call.overflow_checks)
    /\ pc' = "decoded"
    /\ UNCHANGED <<call, out, back>>

\* A decoded client query is written again (to_string).
FormatQuery ==
    /\ pc = "decoded"
    /\ IsOk(res)
    /\ res.val.kind = "ClientQuery"
    /\ out' = ClientQueryMessage_fmt(res.val)
    /\ pc' = "encoded"
    /\ UNCHANGED <<call, res, back>>

NextDispatch == Dispatch \/ FormatQuery

SpecDispatch == InitDispatch /\ [][NextDispatch]_vars

\* The fields of the line that was handed in.
LineFields == split(call.text, {":"})

LineStarts(prefix) == starts_with(LineFields[1], Chars(prefix))

\* C1: decoding a line never aborts: parse_message returns a message or a
\* typed error, whatever the number of fields.
C1_DecodingTotal == pc = "decoded" => res.tag # "Abort"

\* A who-has query cut short of its subject is rejected with the count.
C1_Witness ==
    /\ pc = "decoded"
    /\ call.text = Chars("$CQEHAM_GND:@94835:WH")
    /\ res = InvalidFieldCount(4, 3)

\* Whether a text is its own uppercase.
IsUppercase(t) == to_uppercase(t) = t

C3_LoneDeregistration ==
    (pc = "decoded" /\ Len(LineFields) = 1) =>
        IF LineStarts("#DA") THEN IsOk(res) /\ res.val.kind = "AtcDeregister"
        ELSE IF LineStarts("#DP") THEN IsOk(res) /\ res.val.kind = "PilotDeregister"
        ELSE res = Err("UnknownMessageType", call.text)

\* The half of C3 the code keeps: a line of one field without a
\* deregistration prefix is an unknown message.
C3_Witness ==
    /\ pc = "decoded"
    /\ call.text = Chars("#TMBAW1")
    /\ res = Err("UnknownMessageType", call.text)

\* C4: a #TM line of three fields or more is a frequency message when its
\* field 1 begins with '@' and a text message when it does not, and a #TM
\* line of two fields is rejected with InvalidFieldCount(3, 2) whichever its
\* field 1 is.  (A line of one field has no field 1; C3 is about it.)
C4_TextOrFrequency ==
    (pc = "decoded" /\ LineStarts("#TM") /\ Len(LineFields) >= 2) =>
        IF Len(LineFields) < 3 THEN res = InvalidFieldCount(3, Len(LineFields))
        ELSE /\ IsOk(res)
             /\ res.val.kind = IF starts_with(LineFields[2], <<"@">>)
                               THEN "FrequencyMessage" ELSE "TextMessage"

C4_Witness ==
    /\ pc = "decoded"
    /\ call.text = Chars("#TMBAW1:@18300:hello")
    /\ IsOk(res)
    /\ res.val.kind = "FrequencyMessage"
    /\ res.val.body[3] = <<Freq(118, 300)>>

\* C5: a #SB line is the plane-info request, the plane-info response or one
\* of the two FSInn placeholders as its field 2 is PIR, PI, FSIPI or FSIPIR
\* and an unknown message for any other field 2; a #SB line of less than
\* three fields is rejected with UnknownMessageType or InvalidFieldCount.
C5_PlaneInfoKinds ==
    (pc = "decoded" /\ LineStarts("#SB")) =>
        LET n == Len(LineFields)
            Is(x) == LineFields[3] = Chars(x)
            Kind(k) == IsOk(res) /\ res.val.kind = k
        IN  IF n < 3
            THEN res.tag = "Err" /\ res.err \in {"UnknownMessageType", "InvalidFieldCount"}
            ELSE IF Is("PIR") THEN Kind("PlaneInfoRequest")
            ELSE IF Is("PI")
            THEN IF n < 5 THEN res = InvalidFieldCount(5, n)
                 ELSE Kind("PlaneInfoResponse")
            ELSE IF Is("FSIPI") THEN Kind("FSInnPlaneInformationResponse")
            ELSE IF Is("FSIPIR") THEN Kind("FSInnPlaneInformationRequest")
            ELSE res = Err("UnknownMessageType", call.text)

C5_Witness ==
    /\ pc = "decoded"
    /\ call.text = Chars("#SBBAW1:BAW2:PI:GEN:EQUIPMENT=B738:airline=BAW:LIVERY")
    /\ IsOk(res)
    /\ res.val.body[3].equipment = <<Chars("B738")>>
    /\ res.val.body[3].airline = <<Chars("BAW")>>
    /\ res.val.body[3].livery = <<>>

\* C6: a $DI line of three fields or more decodes to the server handshake
\* and one of two fields is rejected with InvalidFieldCount(3, 2); a $ID
\* line of eight fields or more is taken for a client handshake (it decodes
\* to one unless its client id or a version number is no number), with
\* field 8 as its key when it is there.  (A line of one field is the case
\* of C3.)
C6_HandshakeArity ==
    LET n == Len(LineFields)
    IN  /\ (pc = "decoded" /\ LineStarts("$DI") /\ n >= 2) =>
              IF n < 3 THEN res = InvalidFieldCount(3, n)
              ELSE IsOk(res) /\ res.val.kind = "InitialServerHandshake"
        /\ (pc = "decoded" /\ LineStarts("$ID") /\ n >= 8) =>
              \/ /\ IsOk(res)
                 /\ res.val.kind = "InitialClientHandshake"
                 /\ res.val.body[9] = IF n > 8 THEN <<LineFields[9]>> ELSE <<>>
              \/ /\ res.tag = "Err"
                 /\ res.err \in {"InvalidClientID", "InvalidVersionNumber"}

C6_Witness ==
    /\ pc = "decoded"
    /\ call.text = Chars("$DISERVER:CLIENT:VATSIM FSD V3.13:token")
    /\ IsOk(res)
    /\ res.val.kind = "InitialServerHandshake"

-----------------------------------------------------------------------------
(* The scratchpad texts: ScratchPad::from_str, then its Display *)

MaxPadLen == 3

PadAlphabet == {"H", "M", "0", "7", "+", "x"}

\* Short texts, every literal word, and stands of both kinds.
PadInputs ==
    TextsUpTo(PadAlphabet, MaxPadLen)
        \cup {Chars(w.text) : w \in PadWords}
        \cup {Chars("GRP/S/A12"), Chars("GRP/M/EGLL/A12"), Chars("GRP/M/A12"),
              Chars("GRP/S/") \o <<EAcute>>, Chars("GRP/X/A12"), Chars("R1500"),
              Chars("S250"), Chars("H4294967295"), Chars("H4294967296"),
              Chars("DCT BPK"), Chars("nsts")}

InitPad ==
    /\ pc = "start"
    /\ call \in {[fn |-> "ScratchPad::from_str", text |-> t] : t \in PadInputs}
    /\ res = Nil
    /\ out = Nil
    /\ back = Nil

\* call.text.parse::<ScratchPad>()
PadParse ==
    /\ pc = "start"
    /\ res' = ScratchPad_from_str(call.text)
    /\ pc' = "decoded"
    /\ UNCHANGED <<call, out, back>>

\* The scratchpad is written again (to_string).
PadFormat ==
    /\ pc = "decoded"
    /\ IsOk(res)
    /\ out' = ScratchPad_fmt(res.val)
    /\ pc' = "encoded"
    /\ UNCHANGED <<call, res, back>>

\* What was written is parsed again.
PadReparse ==
    /\ pc = "encoded"
    /\ back' = ScratchPad_from_str(out)
    /\ pc' = "reparsed"
    /\ UNCHANGED <<call, res, out>>

NextPad == PadParse \/ PadFormat \/ PadReparse

SpecPad == InitPad /\ [][NextPad]_vars

\* Whether a text is the letter followed by one digit or more.
IsLetterDigits(s, letter) == Len(s) >= 2 /\ Head(s) = letter /\ AllDigits(Tail(s))

\* The variant of a letter followed by digits, by the letter.
NumberPads == [H |-> "Heading", R |-> "RateOfClimbDescent", S |-> "Speed", M |-> "Mach"]

\* C11: a scratchpad text is never rejected.  A text of H, R, S or M
\* followed by digits is the number variant of its letter; if not, a text
\* longer than GRP/S/ that begins with it is the stand after it (GRP/S/A12
\* is the stand A12); if not, one longer than GRP/M/ that begins with it is
\* a manual stand; if not, a literal word is the word's variant (GRP/S/
\* cancels the stand); and any other text is plain text, kept verbatim.
C11_ScratchPadTotal ==
    pc = "decoded" =>
        LET s == call.text
        IN  /\ IsOk(res)
            /\ IF \E l \in DOMAIN NumberPads : IsLetterDigits(s, l)
               THEN res.val.pad = NumberPads[Head(s)]
               ELSE IF Len(s) > 6 /\ starts_with(s, Chars("GRP/S/"))
               THEN res = Pad("Stand", SubSeq(s, 7, Len(s)))
               ELSE IF Len(s) > 6 /\ starts_with(s, Chars("GRP/M/"))
               THEN res.val.pad = "ManualStand"
               ELSE IF \E w \in PadWords : Chars(w.text) = s
               THEN /\ \E w \in PadWords : Chars(w.text) = s /\ res.val.pad = w.variant
                    /\ s = Chars("GRP/S/") => res = Pad("CancelledStand", "")
               ELSE res = Pad("PlainTextOrDirect", s)

C11_Witness ==
    /\ pc = "decoded"
    /\ call.text = Chars("GRP/S/A12")
    /\ res = Pad("Stand", Chars("A12"))

\* C12: GRP/M/<icao>/<stand> is the manual stand of <icao> and <stand>, and
\* the text GRP/M/ alone cancels the manual stand.
C12_ManualStand ==
    pc = "decoded" =>
        LET s == call.text
            parts == split(s, {"/"})
        IN  /\ (starts_with(s, Chars("GRP/M/")) /\ Len(parts) = 4
                   /\ parts[3] # <<>> /\ parts[4] # <<>>) =>
                   res = Pad("ManualStand", <<parts[3], parts[4]>>)
            /\ s = Chars("GRP/M/") => res = Pad("CancelledManualStand", "")

C12_Witness ==
    /\ pc = "decoded"
    /\ call.text = Chars("GRP/M/")
    /\ res = Pad("CancelledManualStand", "")

-----------------------------------------------------------------------------
(* util.rs: encode_pitch_bank_heading, decode_pitch_bank_heading *)

\* An f64 angle is modelled exactly, in two parts.  u counts grid units,
\* UnitsPerStep of them to a quantization step of 360/1024 degrees: with
\* UnitsPerStep a power of two such an angle in degrees, its quotient by
\* 360 and every sum and product below are exact in f64.  t is
\* the sign of a part too small to be seen next to 1.0 (an angle of 1e-20
\* degrees, say): for such an angle 1.0 - angle/360 rounds to 1.0.  t is 0
\* unless u is 0.
Steps == 1024
UnitsPerStep == 4
Grid == UnitsPerStep * Steps

Angle(u, t) == [u |-> u, t |-> t]

\* x < 0.0
IsNegative(x) == x.u < 0 \/ (x.u = 0 /\ x.t < 0)

\* f64 as u32: the fraction is dropped and a negative number gives 0.
AsU32(units) == IF units < 0 THEN 0 ELSE units \div UnitsPerStep

\* angle / -360.0, plus 1.0 when that is negative, times 1024.0, as u32.
ScaledDown(angle) ==
    LET p == Angle(-angle.u, -angle.t)
        q == IF IsNegative(p) THEN Angle(p.u + Grid, 0) ELSE p
    IN  AsU32(q.u)

\* heading / 360.0 * 1024.0 as u32
ScaledUp(angle) == AsU32(angle.u)

\* A u32 as its 32 bits, bit 0 the least significant.
Bit(n, i) == (n \div (2 ^ i)) % 2
Shl(n, s) == [i \in 0..31 |-> IF i >= s THEN Bit(n, i - s) ELSE 0]
BitOr(a, b) == [i \in 0..31 |-> IF a[i] = 1 \/ b[i] = 1 THEN 1 ELSE 0]

\* The number written by the bits lo .. lo + width - 1 of a word.
RECURSIVE BitsOf(_, _, _)
BitsOf(w, lo, width) ==
    IF width = 0 THEN 0 ELSE w[lo] + 2 * BitsOf(w, lo + 1, width - 1)

encode_pitch_bank_heading(pitch, bank, heading, on_ground) ==
    BitOr(BitOr(Shl(ScaledDown(pitch), 22), Shl(ScaledDown(bank), 12)),
          BitOr(Shl(ScaledUp(heading), 2), Shl(IF on_ground THEN 1 ELSE 0, 1)))

\* x / 1024.0 * -360.0, brought back into (-180, 180].
SignedAngle(k) ==
    LET x == -(k * UnitsPerStep)
    IN  IF 2 * x > Grid THEN Angle(x - Grid, 0)
        ELSE IF 2 * x <= -Grid THEN Angle(x + Grid, 0)
        ELSE Angle(x, 0)

\* x / 1024.0 * 360.0, brought back into [0, 360).
HeadingAngle(k) ==
    LET x == k * UnitsPerStep
    IN  IF x < 0 THEN Angle(x + Grid, 0)
        ELSE IF x >= Grid THEN Angle(x - Grid, 0)
        ELSE Angle(x, 0)

\* on_ground is (input & 2) == 1.
decode_pitch_bank_heading(input) ==
    [pitch |-> SignedAngle(BitsOf(input, 22, 10)),
     bank |-> SignedAngle(BitsOf(input, 12, 10)),
     heading |-> HeadingAngle(BitsOf(input, 2, 10)),
     on_ground |-> (2 * input[1] = 1)]

\* The angles tried: within MaxNear grid units of the ends and the quarter
\* points of the range, the two smallest angles, and one turn either way.
MaxNear == 2
Tiny == Angle(0, 1)
MinusTiny == Angle(0, -1)
Near(u) == {Angle(u + d, 0) : d \in -MaxNear..MaxNear}
SignedAngles ==
    Near(0) \cup Near(Grid \div 4) \cup Near(-(Grid \div 4))
        \cup Near(Grid \div 2) \cup Near(-(Grid \div 2))
        \cup {Tiny, MinusTiny, Angle(Grid, 0), Angle(-Grid, 0)}
HeadingAngles ==
    Near(0) \cup Near(Grid \div 2) \cup Near(Grid) \cup {Tiny, MinusTiny}

\* pitch and bank in (-180, 180], heading in [0, 360)
InSignedRange(x) ==
    /\ (2 * x.u > -Grid \/ (2 * x.u = -Grid /\ x.t > 0))
    /\ (2 * x.u < Grid \/ (2 * x.u = Grid /\ x.t <= 0))
InHeadingRange(x) == ~IsNegative(x) /\ x.u < Grid

InitOrientation ==
    /\ pc = "start"
    /\ call \in [fn : {"encode_pitch_bank_heading"}, pitch : SignedAngles,
                 bank : SignedAngles, heading : HeadingAngles,
                 on_ground : BOOLEAN]
    /\ res = Nil
    /\ out = Nil
    /\ back = Nil

EncodeOrientation ==
    /\ pc = "start"
    /\ pc' = "encoded"
    /\ res' = encode_pitch_bank_heading(call.pitch, call.bank, call.heading,
                                        call.on_ground)
    /\ UNCHANGED <<call, out, back>>

DecodeOrientation ==
    /\ pc = "encoded"
    /\ pc' = "decoded"
    /\ out' = decode_pitch_bank_heading(res)
    /\ UNCHANGED <<call, res, back>>

NextOrientation == EncodeOrientation \/ DecodeOrientation

SpecOrientation == InitOrientation /\ [][NextOrientation]_vars

\* C13: the on-ground flag passed to encode_pitch_bank_heading is the flag
\* decode_pitch_bank_heading gives back, whatever the three angles are.
C13_OnGroundRoundTrip ==
    (pc = "decoded" /\ call.fn = "encode_pitch_bank_heading")
        => out.on_ground = call.on_ground

\* The flag was set, its bit is set in the packed word, and the word has
\* been decoded.
C13_Witness ==
    /\ pc = "decoded"
    /\ call.fn = "encode_pitch_bank_heading"
    /\ call.on_ground
    /\ res[1] = 1

\* |decoded - original| <= 360/1024 degrees, in exact arithmetic.
WithinStep(original, decoded) ==
    LET d == decoded.u - original.u
        t == decoded.t - original.t
    IN  \/ (d < UnitsPerStep /\ d > -UnitsPerStep)
        \/ (d = UnitsPerStep /\ t <= 0)
        \/ (d = -UnitsPerStep /\ t >= 0)

InRanges ==
    /\ call.fn = "encode_pitch_bank_heading"
    /\ InSignedRange(call.pitch)
    /\ InSignedRange(call.bank)
    /\ InHeadingRange(call.heading)

\* C14: for pitch and bank in (-180, 180] and heading in [0, 360), the
\* decoded pitch, bank and heading are each within one quantization step
\* of the originals, the decoded pitch and bank are in (-180, 180] and the
\* decoded heading is in [0, 360).
C14_WithinOneStep ==
    (pc = "decoded" /\ InRanges) =>
        /\ WithinStep(call.pitch, out.pitch)
        /\ WithinStep(call.bank, out.bank)
        /\ WithinStep(call.heading, out.heading)
        /\ InSignedRange(out.pitch)
        /\ InSignedRange(out.bank)
        /\ InHeadingRange(out.heading)

\* An orientation in range whose three angles all fall between two
\* quantization steps has been encoded and decoded.
C14_Witness ==
    /\ pc = "decoded"
    /\ InRanges
    /\ call.pitch.u % UnitsPerStep # 0
    /\ call.bank.u % UnitsPerStep # 0
    /\ call.heading.u % UnitsPerStep # 0
    /\ out.pitch # call.pitch
    /\ WithinStep(call.pitch, out.pitch)

\* C15: for pitch and bank in (-180, 180] and heading in [0, 360) each
\* scaled component is at most 1023, and the packed word holds the scaled
\* pitch in bits 31..22, the scaled bank in bits 21..12, the scaled heading
\* in bits 11..2, the on-ground flag in bit 1 and 0 in bit 0.
C15_Layout ==
    (pc = "encoded" /\ InRanges) =>
        /\ ScaledDown(call.pitch) <= Steps - 1
        /\ ScaledDown(call.bank) <= Steps - 1
        /\ ScaledUp(call.heading) <= Steps - 1
        /\ BitsOf(res, 22, 10) = ScaledDown(call.pitch)
        /\ BitsOf(res, 12, 10) = ScaledDown(call.bank)
        /\ BitsOf(res, 2, 10) = ScaledUp(call.heading)
        /\ res[1] = (IF call.on_ground THEN 1 ELSE 0)
        /\ res[0] = 0

\* An orientation in range with all three components and the flag set has
\* been packed.
C15_Witness ==
    /\ pc = "encoded"
    /\ InRanges
    /\ BitsOf(res, 22, 10) > 0
    /\ BitsOf(res, 12, 10) > 0
    /\ BitsOf(res, 2, 10) > 0
    /\ res[1] = 1

\* The kinds whose record has a recipient, by the place of it in the body.
ToSecond ==
    {"AtcRegister", "PilotRegister", "AuthenticationChallenge",
     "AuthenticationResponse", "TextMessage", "ChangeServer",
     "InitialServerHandshake", "InitialClientHandshake",
     "SendFastPositionUpdates", "Kill", "MetarRequest", "MetarResponse",
     "Ping", "Pong", "PlaneInfoRequest", "PlaneInfoResponse",
     "FlightPlanMessage", "FlightPlanAmendment", "HandoffOffer", "HandoffAccept"}
ToThird == {"ClientQuery", "ClientQueryResponse", "SharedState"}

\* The sub-variants that are about a subject callsign, which is their
\* first argument.
SubjectNames ==
    {"IsValidATC", "FlightPlan", "WhoHas", "DropTrack", "InitiateTrack",
     "SetScratchpad", "SetFinalAltitude", "SetTempAltitude", "SetBeaconCode",
     "SetVoiceType", "AcceptHandoff", "IHave", "HandoffCancel", "ScratchPad",
     "TempAltitude", "FinalAltitude", "VoiceType", "BeaconCode"}

SubName(sub) ==
    IF "query" \in DOMAIN sub THEN sub.query
    ELSE IF "response" \in DOMAIN sub THEN sub.response
    ELSE sub.state

\* The callsigns of a decoded record: from (or callsign), to, and the
\* subject of a client query, client query response or shared state.
CallsignsOf(m) ==
    (IF Len(m.body) >= 1 THEN {m.body[1]} ELSE {})
        \cup (IF m.kind \in ToSecond THEN {m.body[2]} ELSE {})
        \cup (IF m.kind \in ToThird THEN {m.body[3]} ELSE {})
        \cup (IF m.kind = "FsdError" THEN {m.body[4]} ELSE {})
        \cup (IF m.kind \in ToThird /\ SubName(m.body[2]) \in SubjectNames
              THEN {m.body[2].args[1]} ELSE {})

\* C16: in every record that was decoded, from (or callsign), to and the
\* subject callsign of a client query, client query response or shared
\* state are their own uppercase.
C16_CallsignsUppercase ==
    (pc = "decoded" /\ call.fn = "parse_message" /\ IsOk(res)) =>
        \A c \in CallsignsOf(res.val) : IsUppercase(c)

\* A flight plan query written in lowercase was decoded, and its sender,
\* its recipient and its subject are in uppercase.
C16_Witness ==
    /\ pc = "decoded"
    /\ call.text = Chars("$CQegll_twr:server:FP:baw1")
    /\ IsOk(res)
    /\ CallsignsOf(res.val) = {Chars("EGLL_TWR"), Chars("SERVER"), Chars("BAW1")}

-----------------------------------------------------------------------------
(* The minutes of a flight plan *)

MaxMinutesLen == 3
MinutesAlphabet == {"0", "2", "5", "6", "+"}
MinutesTexts == TextsUpTo(MinutesAlphabet, MaxMinutesLen)

\* The fifteen fields of a flight plan with the given minutes enroute,
\* minutes of fuel and cruise level.
PlanFields(enroute, fuel, level) ==
    <<<<"I">>, Chars("B738"), Chars("420"), Chars("EGLL"), Chars("1200"),
      Chars("1205"), level, Chars("EGKK"), <<"1">>, enroute, <<"2">>, fuel,
      Chars("EGCC"), Chars("rmk"), Chars("route")>>

\* One minutes field is any text, the other is one of a few.
InitPlan ==
    /\ pc = "start"
    /\ \E t \in MinutesTexts, o \in {<<>>, Chars("45"), Chars("75")},
          level \in {Chars("FL350"), Chars("FL42949673")}, first \in BOOLEAN,
          checks \in BOOLEAN :
            call = [fn |-> "FlightPlan::try_from",
                    fields |-> IF first THEN PlanFields(t, o, level)
                               ELSE PlanFields(o, t, level),
                    overflow_checks |-> checks]
    /\ res = Nil
    /\ out = Nil
    /\ back = Nil

PlanParse ==
    /\ pc = "start"
    /\ pc' = "decoded"
    /\ res' = FlightPlan_try_from(call.fields, call.overflow_checks)
    /\ UNCHANGED <<call, out, back>>

NextPlan == PlanParse

SpecPlan == InitPlan /\ [][NextPlan]_vars

\* Whether a text is a number greater than 59.
Over59(t) == t # <<>> /\ AllDigits(t) /\ DigitsGreater(StripZeros(t), Chars("59"))

-----------------------------------------------------------------------------
(* errors.rs: FsdError, and the $ER line written again *)

\* The variants of FsdError in the order of their numbers, 1 to 18.
FsdErrorVariants ==
    <<"CallsignInUse", "InvalidCallsign", "AlreadyRegistered", "SyntaxError",
      "InvalidSourceCallsign", "InvalidCidPassword", "NoSuchCallsign",
      "NoFlightPlan", "NoWeatherProfile", "InvalidProtocolRevision",
      "RequestedLevelTooHigh", "ServerFull", "CertificateSuspended",
      "InvalidControl", "InvalidPositionForRating", "UnauthorisedClient",
      "AuthTimeOut", "Other">>

\* FsdError::error_number
error_number(error_type) == IndexOf(error_type.error, FsdErrorVariants)

\* impl Display for FsdErrorMessage: the number in three digits, and the
\* text of an Other after two colons.
FsdErrorMessage_fmt(m) ==
    Chars("$ER") \o m.body[1] \o <<":">> \o m.body[4] \o <<":">>
        \o ZeroPad(DecText(error_number(m.body[3])), 3) \o Chars("::")
        \o (IF m.body[3].error = "Other" THEN m.body[3].text ELSE <<>>)

MaxCode == 20
CodeTexts ==
    {DecText(n) : n \in 0..MaxCode}
        \cup {Chars("005"), Chars("+5"), Chars("255"), Chars("256"), <<"x">>, <<>>}

InitError ==
    /\ pc = "start"
    /\ \E code \in CodeTexts, about \in {<<>>, Chars("baw2"), Chars("EGLL")},
          text \in {<<>>, Chars("No such callsign")} :
            call = [fn |-> "FsdErrorMessage::try_from",
                    fields |-> <<Chars("$ERserver"), Chars("BAW1"), code, about, text>>]
    /\ res = Nil
    /\ out = Nil
    /\ back = Nil

ErrorParse ==
    /\ pc = "start"
    /\ pc' = "decoded"
    /\ res' = FsdErrorMessage_try_from(call.fields)
    /\ UNCHANGED <<call, out, back>>

\* A decoded error message is written again (to_string).
ErrorFormat ==
    /\ pc = "decoded"
    /\ IsOk(res)
    /\ pc' = "encoded"
    /\ out' = FsdErrorMessage_fmt(res.val)
    /\ UNCHANGED <<call, res, back>>

NextError == ErrorParse \/ ErrorFormat

SpecError == InitError /\ [][NextError]_vars

\* C18: a $ER line whose code is a number n in 1..17 decodes to an error
\* whose error_number() is n, and is written again with n in three digits;
\* a line whose code is any other number (of a u8) decodes to Other with
\* field 4 as its text, whose error_number() is 18.
C18_ErrorNumbers ==
    (pc # "start" /\ call.fn = "FsdErrorMessage::try_from"
            /\ ParseU8(At(call.fields, 2)) # -1) =>
        LET n == ParseU8(At(call.fields, 2))
            error_type == res.val.body[3]
        IN  /\ IsOk(res)
            /\ IF n \in 1..17
               THEN /\ error_number(error_type) = n
                    /\ error_type.error # "Other"
                    /\ pc = "encoded" =>
                        SubSeq(split(out, {":"})[3], 1, 3) = ZeroPad(DecText(n), 3)
               ELSE /\ error_type = [error |-> "Other", text |-> At(call.fields, 4)]
                    /\ error_number(error_type) = 18

\* The code 7 was decoded to NoSuchCallsign and written again as 007.
C18_Witness ==
    /\ pc = "encoded"
    /\ call.fn = "FsdErrorMessage::try_from"
    /\ At(call.fields, 2) = <<"7">>
    /\ res.val.body[3] = [error |-> "NoSuchCallsign", text |-> Chars("BAW2")]
    /\ out = Chars("$ERSERVER:BAW1:007::")

\* The kinds with one required count, by the prefix of the line.
RequiredCount ==
    [p \in {"#AA", "#AP", "#ST", "#SL", "#TM", "$DI", "$ID", "$ER", "$FP", "$AM"} |->
        CASE p \in {"#AA", "#AP"} -> 7
          [] p = "#ST" -> 6
          [] p = "#SL" -> 12
          [] p = "#TM" -> 3
          [] p = "$DI" -> 3
          [] p = "$ID" -> 8
          [] p = "$ER" -> 5
          [] p = "$FP" -> 17
          [] p = "$AM" -> 18]

\* C19: when a line is rejected with InvalidFieldCount(expected, found),
\* found is the number of fields of the line, and expected is the count
\* the kind requires: 17 for $FP and 18 for $AM, whatever the length, the
\* minimum of the kind for the kinds that have one minimum, and for the
\* kinds with sub-variants a minimum the line does not reach.
C19_FieldCounts ==
    (pc = "decoded" /\ call.fn = "parse_message" /\ res.tag = "Err"
            /\ res.err = "InvalidFieldCount") =>
        LET n == Len(LineFields)
            expected == res.text[1]
            found == res.text[2]
        IN  /\ found = n
            /\ \A p \in DOMAIN RequiredCount :
                    LineStarts(p) => expected = RequiredCount[p]
            /\ ~(LineStarts("$FP") \/ LineStarts("$AM")) => expected > n

\* A flight plan message of sixteen fields was rejected with the counts.
C19_Witness ==
    /\ pc = "decoded"
    /\ call.fn = "parse_message"
    /\ LineStarts("$FP")
    /\ Len(LineFields) = 16
    /\ res = InvalidFieldCount(17, 16)

\* Whether a list of frequencies has a piece that RadioFrequency::from_str
\* rejects (the nothing before a leading "@" is no piece).
HasBadFrequency(t) ==
    \E piece \in {split(t, {"&", "@"})[i] : i \in 1..Len(split(t, {"&", "@"}))} :
        piece # <<>> /\ RadioFrequency_from_str(piece).tag = "Err"

\* Whether a text is an i32.
IsI32(t) ==
    LET signed == t # <<>> /\ Head(t) \in {"+", "-"}
        body == IF signed THEN Tail(t) ELSE t
    IN  /\ body # <<>>
        /\ AllDigits(body)
        /\ ~DigitsGreater(StripZeros(body),
                          IF signed /\ Head(t) = "-" THEN I32MinMagnitude ELSE I32Max)

\* C20: an ATC position update with a frequency in field 1 that is none,
\* or with an elevation in field 7 that is no number, is rejected with an
\* error, and so is a frequency message with a frequency in field 1 that
\* is none: no record is made of it.
C20_NoSilentDefault ==
    (pc = "decoded" /\ call.fn = "parse_message" /\ Len(LineFields) >= 3) =>
        /\ (LineStarts("%") /\ Len(LineFields) >= 7
                /\ HasBadFrequency(At(LineFields, 1))) => res.tag = "Err"
        /\ (LineStarts("%") /\ Len(LineFields) >= 8
                /\ ~IsI32(At(LineFields, 7))) => res.tag = "Err"
        /\ (LineStarts("#TM") /\ starts_with(At(LineFields, 1), <<"@">>)
                /\ HasBadFrequency(At(LineFields, 1))) => res.tag = "Err"

\* An ATC position update whose visibility range is no number was rejected
\* with the error of that field.
C20_Witness ==
    /\ pc = "decoded"
    /\ call.text = Chars("%EGLL_TWR:18300:4:x:5:51.5:-0.4:0")
    /\ res = Err("InvalidVisRange", <<"x">>)

\* Whether a text is a number with a digit that no transponder code has.
HasHighDigit(t) == t # <<>> /\ AllDigits(t) /\ \E i \in 1..Len(t) : t[i] \in {"8", "9"}

\* C21: the error of a malformed field carries the text of that field: a
\* beacon code with a digit 8 or 9 is rejected with InvalidTransponderCode
\* of the code as it was written, and a secondary visibility centre of
\* four fields or more whose latitude (field 2) or longitude (field 3) is
\* no number is rejected with InvalidCoordinate of that field.
C21_ErrorCarriesField ==
    (pc = "decoded" /\ call.fn = "parse_message") =>
        LET fields == LineFields
            n == Len(fields)
        IN  /\ (LineStarts("'") /\ n >= 4 /\ parse_usize(At(fields, 1)).tag = "Ok") =>
                /\ ~IsFloatText(At(fields, 2)) =>
                        res = Err("InvalidCoordinate", At(fields, 2))
                /\ (IsFloatText(At(fields, 2)) /\ ~IsFloatText(At(fields, 3))) =>
                        res = Err("InvalidCoordinate", At(fields, 3))
            /\ (LineStarts("$CQ") /\ n >= 5 /\ At(fields, 2) = Chars("BC")
                    /\ HasHighDigit(At(fields, 4))) =>
                res = Err("InvalidTransponderCode", At(fields, 4))

\* A secondary visibility centre of four fields whose index is no number
\* was rejected with the text of the index.
C21_Witness ==
    /\ pc = "decoded"
    /\ call.text = Chars("'EGLL_TWR:x:51.5:-0.4")
    /\ res = Err("InvalidIndex", <<"x">>)

-----------------------------------------------------------------------------
(* The new-ATIS query *)

AtisFirsts ==
    {Chars("ATIS A"), Chars("atis b"), Chars("ATIS 1"), <<>>,
     Chars("ATIS ") \o <<LStroke>>, Chars("ATIS ") \o <<EAcute>>}
AtisWinds ==
    {Chars("36010KT"), Chars("3601KT"), Chars("36010G20KT"),
     Chars("3601") \o <<EAcute>> \o <<"T">>}
AtisSeparators == {<<>>, <<" ">>, <<"-">>, Chars(" - ")}
AtisPressures == {<<>>, Chars("101"), Chars("1013"), Chars("Q1013")}

\* The two fields handed to parse_new_atis, and the NewATIS values that
\* are written and read again.
AtisCalls ==
    {[fn |-> "parse_new_atis", input |-> <<first, lead \o wind \o sep \o pressure>>] :
        first \in AtisFirsts, lead \in {<<>>, Chars("  ")}, wind \in AtisWinds,
        sep \in AtisSeparators, pressure \in AtisPressures}
    \cup
    {[fn |-> "ClientQueryType::fmt", atis_letter |-> UpperLetters[i],
      surface_wind |-> wind, pressure |-> pressure] :
        i \in 1..Len(UpperLetters), wind \in {Chars("36010KT"), Chars("36010G20KT")},
        pressure \in {Chars("1013"), Chars("Q1013")}}

InitAtis ==
    /\ pc = "start"
    /\ call \in AtisCalls
    /\ res = Nil
    /\ out = Nil
    /\ back = Nil

AtisParse ==
    /\ pc = "start"
    /\ call.fn = "parse_new_atis"
    /\ pc' = "decoded"
    /\ res' = parse_new_atis(call.input)
    /\ UNCHANGED <<call, out, back>>

\* The query of a NewATIS value is written (to_string) ...
AtisFormat ==
    /\ pc = "start"
    /\ call.fn = "ClientQueryType::fmt"
    /\ pc' = "encoded"
    /\ out' = ClientQueryMessage_fmt(
                [kind |-> "ClientQuery",
                 body |-> <<Chars("EGLL_ATIS"),
                            [query |-> "NewATIS",
                             args |-> <<call.atis_letter, call.surface_wind,
                                        call.pressure>>],
                            Chars("@94835")>>])
    /\ UNCHANGED <<call, res, back>>

\* ... and the line is read again.
AtisReparse ==
    /\ pc = "encoded"
    /\ pc' = "reparsed"
    /\ back' = ClientQueryMessage_try_from(split(out, {":"}), TRUE)
    /\ UNCHANGED <<call, res, out>>

NextAtis == AtisParse \/ AtisFormat \/ AtisReparse

SpecAtis == InitAtis /\ [][NextAtis]_vars

\* C22: parse_new_atis rejects with InvalidNewAtisMessage when the first
\* field, uppercased, does not end in a letter A..Z, when the wind group
\* (the second field up to its first space or dash) has fewer than 7
\* characters, and when the pressure group (what follows that space or
\* dash, up to the next) has fewer than 4 characters or is not there;
\* otherwise it returns the letter, the wind group and the pressure group.
C22_NewAtisRejects ==
    (pc = "decoded" /\ call.fn = "parse_new_atis") =>
        LET first == to_uppercase(call.input[1])
            groups == split(to_uppercase(trim(call.input[2])), {" ", "-"})
            rejected ==
                \/ first = <<>>
                \/ ~InSeq(first[Len(first)], UpperLetters)
                \/ Len(groups[1]) < 7
                \/ Len(groups) < 2
                \/ Len(groups[2]) < 4
        IN  IF rejected THEN res.tag = "Err" /\ res.err = "InvalidNewAtisMessage"
            ELSE res = Ok(<<first[Len(first)], groups[1], groups[2]>>)

\* A letter, a wind group and a pressure group were read.
C22_Witness ==
    /\ pc = "decoded"
    /\ call.fn = "parse_new_atis"
    /\ call.input = <<Chars("atis b"), Chars("  36010KT-1013")>>
    /\ res = Ok(<<"B", Chars("36010KT"), Chars("1013")>>)

\* C24: the line written for a NewATIS query of a letter in A..Z, a wind
\* group of 7 characters or more and a pressure group of 4 characters or
\* more is accepted by the client-query parser and gives the same letter,
\* wind and pressure.
C24_NewAtisRoundTrip ==
    (pc = "reparsed" /\ call.fn = "ClientQueryType::fmt") =>
        /\ IsOk(back)
        /\ back.val.body[2] =
            [query |-> "NewATIS",
             args |-> <<call.atis_letter, call.surface_wind, call.pressure>>]

\* The query of the letter A, the wind 36010KT and the pressure 1013 was
\* written and the line was read again.
C24_Witness ==
    /\ pc = "reparsed"
    /\ call.fn = "ClientQueryType::fmt"
    /\ out = Chars("$CQEGLL_ATIS:@94835:NEWATIS:ATIS A:  36010KT - 1013")
    /\ back # Nil

-----------------------------------------------------------------------------
(* enums.rs: the capabilities of a response, written *)

MaxCaps == 3
CapsTried == {"ATCINFO", "SECPOS", "STEALTH", "VERSION"}

\* HashSet::iter: the elements in an order that the hasher of the set
\* decides; every HashSet has a hasher of its own (RandomState), so any
\* order can come out.
IterOrders(set) ==
    {order \in [1..Cardinality(set) -> set] :
        \A i, j \in 1..Cardinality(set) : order[i] = order[j] => i = j}

\* ClientResponseType::fmt for Capabilities, the set iterated in the given
\* order: "CAPS:" and KEY=1 for each, with colons between.
Capabilities_fmt(order) ==
    Chars("CAPS:")
        \o join([i \in 1..Len(order) |-> Chars(order[i]) \o Chars("=1")], <<":">>)

\* impl Display for ClientQueryResponseMessage, for Capabilities.
CapabilitiesMessage_fmt(from, to, order) ==
    Chars("$CR") \o from \o <<":">> \o to \o <<":">> \o Capabilities_fmt(order)

InitCaps ==
    /\ pc = "start"
    /\ \E set \in SUBSET CapsTried :
        /\ Cardinality(set) <= MaxCaps
        /\ call = [fn |-> "ClientResponseType::fmt", capabilities |-> set]
    /\ res = Nil
    /\ out = Nil
    /\ back = Nil

\* A response with the set is written ...
CapsFormat ==
    /\ pc = "start"
    /\ pc' = "encoded"
    /\ \E order \in IterOrders(call.capabilities) :
        out' = CapabilitiesMessage_fmt(Chars("BAW1"), Chars("EGLL_TWR"), order)
    /\ UNCHANGED <<call, res, back>>

\* ... and a response equal to it (another HashSet of the same
\* capabilities) is written too.
CapsFormatEqual ==
    /\ pc = "encoded"
    /\ pc' = "both encoded"
    /\ \E order \in IterOrders(call.capabilities) :
        back' = CapabilitiesMessage_fmt(Chars("BAW1"), Chars("EGLL_TWR"), order)
    /\ UNCHANGED <<call, res, out>>

NextCaps == CapsFormat \/ CapsFormatEqual

SpecCaps == InitCaps /\ [][NextCaps]_vars

\* C23: two capability responses that are equal by value are written as
\* the same line, with the capabilities in the same order.
C23_SameLine ==
    (pc = "both encoded" /\ call.fn = "ClientResponseType::fmt") => out = back

\* Two equal responses of two capabilities were written.
C23_Witness ==
    /\ pc = "both encoded"
    /\ call.fn = "ClientResponseType::fmt"
    /\ call.capabilities = {"ATCINFO", "SECPOS"}
    /\ out = Chars("$CRBAW1:EGLL_TWR:CAPS:ATCINFO=1:SECPOS=1")

-----------------------------------------------------------------------------
(* enums.rs: impl Display for FsdMessageType *)

\* The variants without a payload: their arm is `m @ ... => m.fmt(f)` with
\* m the FsdMessageType itself, so the arm calls FsdMessageType::fmt anew.
ZeroPayload ==
    {"FSInnPlaneInformationRequest", "FSInnPlaneInformationResponse",
     "ServerHeartbeat"}

\* The number of frames of FsdMessageType::fmt the stack has room for.
MaxFrames == 16

\* The messages that are written: the three without a payload, who-has
\* queries, and an error message of every number.
FmtCallsigns == {Chars("EHAM_GND"), Chars("@94835"), Chars("KLM167")}
FmtMessages ==
    {[kind |-> k, body |-> <<>>] : k \in ZeroPayload}
    \cup {[kind |-> "ClientQuery",
           body |-> <<from, [query |-> "WhoHas", args |-> <<subject>>], to>>] :
            from \in FmtCallsigns, to \in FmtCallsigns, subject \in FmtCallsigns}
    \cup {[kind |-> "FsdError",
           body |-> <<Chars("SERVER"), DecText(n),
                      [error |-> FsdErrorVariants[n],
                       text |-> IF n = 18 THEN Chars("other") ELSE <<>>],
                      Chars("KLM167")>>] : n \in 1..18}

InitFmt ==
    /\ pc = "start"
    /\ call \in [fn : {"FsdMessageType::fmt"}, message : FmtMessages]
    /\ res = 0
    /\ out = Nil
    /\ back = Nil

\* to_string() enters FsdMessageType::fmt; res counts its frames.
FmtEnter ==
    /\ pc = "start"
    /\ pc' = "formatting"
    /\ res' = 1
    /\ UNCHANGED <<call, out, back>>

\* The arm of a variant with a payload hands over to the fmt of the
\* payload, which writes the line and returns.
FmtPayload ==
    /\ pc = "formatting"
    /\ call.message.kind \notin ZeroPayload
    /\ pc' = "encoded"
    /\ res' = 0
    /\ out' = Ok(IF call.message.kind = "ClientQuery"
                 THEN ClientQueryMessage_fmt(call.message)
                 ELSE FsdErrorMessage_fmt(call.message))
    /\ UNCHANGED <<call, back>>

\* The arm of a variant without a payload enters FsdMessageType::fmt again
\* with the same message ...
FmtReenter ==
    /\ pc = "formatting"
    /\ call.message.kind \in ZeroPayload
    /\ res < MaxFrames
    /\ res' = res + 1
    /\ UNCHANGED <<pc, call, out, back>>

\* ... until the stack is full.
FmtOverflow ==
    /\ pc = "formatting"
    /\ call.message.kind \in ZeroPayload
    /\ res = MaxFrames
    /\ pc' = "aborted"
    /\ out' = Abort("stack overflow")
    /\ UNCHANGED <<call, res, back>>

NextFmt == FmtEnter \/ FmtPayload \/ FmtReenter \/ FmtOverflow

SpecFmt == InitFmt /\ [][NextFmt]_vars

\* A call that can go on does go on.
FairSpecFmt == SpecFmt /\ WF_vars(NextFmt)

\* C25: to_string() of a message of any variant, the three variants
\* without a payload among them, comes to an end with the line written.
C25_FmtTerminates ==
    (call.fn = "FsdMessageType::fmt" /\ pc = "formatting")
        ~> (pc = "encoded" /\ IsOk(out))

\* FsdMessageType::fmt was entered for a server heartbeat.
C25_Witness ==
    /\ call.fn = "FsdMessageType::fmt"
    /\ call.message.kind = "ServerHeartbeat"
    /\ pc = "formatting"

-----------------------------------------------------------------------------
(* util.rs: group_frequencies_with_symbol, group_frequencies_without_symbol *)

\* String::with_capacity(6 * frequencies.len() - 1): for an empty list the
\* subtraction of usize passes zero.  With overflow checks that is a panic;
\* without, the capacity is usize::MAX and with_capacity panics.
GroupCapacity(n, overflow_checks) ==
    IF 6 * n - 1 >= 0 THEN Ok(6 * n - 1)
    ELSE IF overflow_checks THEN Abort("attempt to subtract with overflow")
    ELSE Abort("capacity overflow")

\* The frequencies in their compact form with "&" between them, each after
\* the symbol.
Grouped(frequencies, symbol, overflow_checks) ==
    IF GroupCapacity(Len(frequencies), overflow_checks).tag # "Ok"
    THEN GroupCapacity(Len(frequencies), overflow_checks)
    ELSE Ok(join([i \in 1..Len(frequencies) |->
                    symbol \o RadioFrequency_fmt(frequencies[i]).val], <<"&">>))

group_frequencies_without_symbol(frequencies, overflow_checks) ==
    Grouped(frequencies, <<>>, overflow_checks)

group_frequencies_with_symbol(frequencies, overflow_checks) ==
    Grouped(frequencies, <<"@">>, overflow_checks)

\* impl Display for FrequencyMessage: "#TM{}:{}:{}".
FrequencyMessage_fmt(m, overflow_checks) ==
    LET frequencies == group_frequencies_with_symbol(m.body[3], overflow_checks)
    IN  IF frequencies.tag # "Ok" THEN frequencies
        ELSE Ok(Chars("#TM") \o m.body[1] \o <<":">> \o frequencies.val
                    \o <<":">> \o m.body[2])

\* The lists that are decoded and written again: of up to MaxFreqs pieces,
\* of which some are frequencies and some are not.
MaxFreqs == 2
FreqPieces == {Chars("18300"), Chars("21500"), Chars("94835"), Chars("1830"), <<>>}
RECURSIVE FreqLists(_)
FreqLists(n) ==
    IF n = 0 THEN {<<>>}
    ELSE FreqLists(n - 1)
            \cup {IF list = <<>> THEN <<"@">> \o piece
                  ELSE list \o Chars("&@") \o piece :
                      list \in FreqLists(n - 1), piece \in FreqPieces}

InitGroup ==
    /\ pc = "start"
    /\ call \in [fn : {"FrequencyMessage", "group_frequencies_without_symbol"},
                 text : FreqLists(MaxFreqs), overflow_checks : BOOLEAN]
    /\ res = Nil
    /\ out = Nil
    /\ back = Nil

\* A frequency message with the list in field 1 is decoded, or the list of
\* an ATC position update is (split_frequencies).
GroupDecode ==
    /\ pc = "start"
    /\ pc' = "decoded"
    /\ res' = IF call.fn = "FrequencyMessage"
              THEN FrequencyMessage_try_from(
                       <<Chars("#TMBAW1"), call.text, Chars("hello")>>)
              ELSE split_frequencies(call.text)
    /\ UNCHANGED <<call, out, back>>

\* What was decoded is written again.
GroupFormat ==
    /\ pc = "decoded"
    /\ IsOk(res)
    /\ pc' = "encoded"
    /\ out' = IF call.fn = "FrequencyMessage"
              THEN FrequencyMessage_fmt(res.val, call.overflow_checks)
              ELSE group_frequencies_without_symbol(res.val, call.overflow_checks)
    /\ UNCHANGED <<call, res, back>>

NextGroup == GroupDecode \/ GroupFormat

SpecGroup == InitGroup /\ [][NextGroup]_vars

\* The frequencies of what was decoded.
DecodedFrequencies == IF call.fn = "FrequencyMessage" THEN res.val.body[3] ELSE res.val

\* C26: a frequency message, or the frequency list of an ATC position
\* update, that was decoded with no frequency in it is written to the end,
\* with nothing for the frequencies.
C26_EmptyListWritten ==
    (pc = "encoded" /\ call.fn \in {"FrequencyMessage", "group_frequencies_without_symbol"}
            /\ DecodedFrequencies = <<>>) =>
        out = IF call.fn = "FrequencyMessage" THEN Ok(Chars("#TMBAW1::hello"))
              ELSE Ok(<<>>)

\* The list "@94835" was decoded to no frequency and the message was
\* handed to the serializer.
C26_Witness ==
    /\ pc = "encoded"
    /\ call.fn = "FrequencyMessage"
    /\ call.text = Chars("@94835")
    /\ res.val.body[3] = <<>>

-----------------------------------------------------------------------------
(* The sub-type tags of client queries, client-query responses and shared
   states: what each serializer writes, handed to the parser of the same
   message kind *)

\* impl Display for AtisLine, on the payload of ClientResponseType::ATIS.
AtisLine_fmt(a) ==
    IF a[1] = "VoiceServer" THEN Chars("V:") \o a[2]
    ELSE IF a[1] = "TextLine" THEN Chars("T:") \o a[2]
    ELSE IF a[1] = "LogoffTime"
    THEN IF a[2] = <<>> THEN Chars("Z:z")
         ELSE Chars("Z:") \o ZeroPad(DecText(a[2][1]), 4) \o <<"z">>
    ELSE Chars("E:") \o DecText(a[2])

\* impl Display for ClientResponseType, the capabilities iterated in the
\* given order.
ClientResponseType_fmt(r, order) ==
    LET name == r.response
        a == r.args
    IN  IF name = "Com1Freq" THEN Chars("C?:") \o to_human_readable_string(a[1])
        ELSE IF name = "ATIS" THEN Chars("ATIS:") \o AtisLine_fmt(a)
        ELSE IF name = "RealName"
        THEN Chars("RN:") \o a[1] \o <<":">> \o a[2] \o <<":">> \o DecText(a[3])
        ELSE IF name = "Capabilities" THEN Capabilities_fmt(order)
        ELSE IF name = "PublicIP" THEN Chars("IP:") \o a[1]
        ELSE IF name = "Server" THEN Chars("SV:") \o a[1]
        ELSE Chars("ATC:") \o (IF a[2] THEN <<"Y">> ELSE <<"N">>) \o <<":">> \o a[1]

\* impl Display for ClientQueryResponseMessage: "$CR{}:{}:{}"
ClientQueryResponseMessage_fmt(m, order) ==
    Chars("$CR") \o m.body[1] \o <<":">> \o m.body[3] \o <<":">>
        \o ClientResponseType_fmt(m.body[2], order)

\* The tag SharedStateType::fmt writes for a state of one callsign.
SubjectStates ==
    [IHave |-> "IH", HandoffCancel |-> "HC", PointOut |-> "PT",
     PushToDepartureList |-> "DP"]

\* The tag SharedStateType::fmt writes for a state of a callsign and a value.
ValueStates ==
    [ScratchPad |-> "SC", TempAltitude |-> "TA", FinalAltitude |-> "FA",
     VoiceType |-> "VT", BeaconCode |-> "BC"]

\* impl Display for SharedStateType.  A flight strip is its callsign, its
\* format if it has one, and its contents if it has them.
SharedStateType_fmt(s) ==
    LET name == s.state
        a == s.args
    IN  IF name = "Version" THEN Chars("VER")
        ELSE IF name \in {"ID", "DI"} THEN Chars(name)
        ELSE IF name \in DOMAIN SubjectStates
        THEN Chars(SubjectStates[name]) \o <<":">> \o a[1]
        ELSE IF name \in DOMAIN ValueStates
        THEN Chars(ValueStates[name]) \o <<":">> \o a[1] \o <<":">>
                 \o (IF name = "ScratchPad" THEN ScratchPad_fmt(a[2])
                     ELSE IF name = "VoiceType" THEN VoiceCapability_fmt(a[2])
                     ELSE IF name = "BeaconCode" THEN TransponderCode_fmt(a[2])
                     ELSE a[2])
        ELSE Chars("ST:") \o a[1]
                 \o (IF a[2] = <<>> THEN <<>> ELSE <<":">> \o a[2][1])
                 \o (IF a[3] = <<>> THEN <<>>
                     ELSE join([i \in 1..Len(a[3][1]) |-> <<":">> \o a[3][1][i]], <<>>))

\* impl Display for SharedStateMessage: "#PC{}:{}:CCP:{}"
SharedStateMessage_fmt(m) ==
    Chars("#PC") \o m.body[1] \o <<":">> \o m.body[3] \o Chars(":CCP:")
        \o SharedStateType_fmt(m.body[2])

\* The values that are written: one of every sub-variant the three
\* serializers have an arm for, but ForceBeaconCode (its arm calls
\* TransponderCode::as_bcd_format).
TagSubject == Chars("KLM167")
QueryValues ==
    {[query |-> q[2], args |-> <<>>] : q \in PlainQueries}
    \cup {[query |-> q[2], args |-> <<TagSubject>>] : q \in SubjectQueries}
    \cup {[query |-> q, args |-> a] :
            q \in {"HelpRequest", "CancelHelpRequest"}, a \in {<<>>, <<Chars("msg")>>}}
    \cup {[query |-> "SetFinalAltitude", args |-> <<TagSubject, Chars("35000")>>],
          [query |-> "SetTempAltitude", args |-> <<TagSubject, Chars("5000")>>],
          [query |-> "SetVoiceType", args |-> <<TagSubject, <<"v">> >>],
          [query |-> "AcceptHandoff", args |-> <<TagSubject, Chars("EGKK_TWR")>>],
          [query |-> "AircraftConfigurationRequest", args |-> <<>>]}

\* Those whose payload is not text.
StructuredQueryValues ==
    <<[query |-> "SetBeaconCode",
       args |-> <<TagSubject, TransponderCode_from_str(Chars("1234")).val>>],
      [query |-> "SetScratchpad",
       args |-> <<TagSubject, Pad("Heading", Chars("270")).val>>],
      [query |-> "AircraftConfigurationResponse",
       args |-> <<[gear_down |-> <<TRUE>>]>>],
      [query |-> "NewATIS", args |-> <<"A", Chars("36010KT"), Chars("1013")>>],
      [query |-> "NewInfo", args |-> <<"A">>],
      [query |-> "SimTime",
       args |-> <<[year |-> Chars("2024"), rest |-> Chars("0229120000")]>>]>>

ResponseValues ==
    <<[response |-> "Com1Freq", args |-> <<Freq(118, 300)>>],
      [response |-> "ATIS", args |-> <<"VoiceServer", Chars("voice.example")>>],
      [response |-> "ATIS", args |-> <<"TextLine", Chars("INFORMATION A")>>],
      [response |-> "ATIS", args |-> <<"LogoffTime", <<2200>> >>],
      [response |-> "ATIS", args |-> <<"LogoffTime", <<>> >>],
      [response |-> "ATIS", args |-> <<"EndMarker", 4>>],
      [response |-> "RealName", args |-> <<Chars("Jo"), Chars("EGTT"), 5>>],
      [response |-> "Capabilities", args |-> <<{"VERSION", "ATCINFO"}>>],
      [response |-> "PublicIP", args |-> <<Chars("10.0.0.1")>>],
      [response |-> "Server", args |-> <<Chars("fsd.example")>>],
      [response |-> "IsValidATC", args |-> <<Chars("EGKK_TWR"), TRUE>>],
      [response |-> "IsValidATC", args |-> <<Chars("EGKK_TWR"), FALSE>>]>>

StateValues ==
    {[state |-> s, args |-> <<>>] : s \in {"Version", "ID", "DI"}}
    \cup {[state |-> s, args |-> <<TagSubject>>] : s \in DOMAIN SubjectStates}
    \cup {[state |-> "TempAltitude", args |-> <<TagSubject, Chars("5000")>>],
          [state |-> "FinalAltitude", args |-> <<TagSubject, Chars("35000")>>],
          [state |-> "VoiceType", args |-> <<TagSubject, <<"v">> >>]}

StructuredStateValues ==
    <<[state |-> "ScratchPad",
       args |-> <<TagSubject, Pad("Heading", Chars("270")).val>>],
      [state |-> "BeaconCode",
       args |-> <<TagSubject, TransponderCode_from_str(Chars("1234")).val>>],
      [state |-> "FlightStrip", args |-> <<TagSubject, <<>>, <<>> >>],
      [state |-> "FlightStrip",
       args |-> <<TagSubject, <<Chars("1")>>, << <<Chars("a"), Chars("b")>> >> >>]>>

TagSenders == {Chars("EGLL_TWR"), Chars("EHAM_GND")}

TagCall(kind, from, value, to, overflow_checks) ==
    [kind |-> kind, body |-> <<from, value, to>>, overflow_checks |-> overflow_checks]

InitTags ==
    /\ pc = "start"
    /\ \E from \in TagSenders, overflow_checks \in BOOLEAN :
        \/ \E q \in QueryValues :
            call = TagCall("ClientQuery", from, q, Chars("@94835"), overflow_checks)
        \/ \E i \in DOMAIN StructuredQueryValues :
            call = TagCall("ClientQuery", from, StructuredQueryValues[i],
                           Chars("@94835"), overflow_checks)
        \/ \E i \in DOMAIN ResponseValues :
            call = TagCall("ClientQueryResponse", from, ResponseValues[i],
                           Chars("BAW1"), overflow_checks)
        \/ \E s \in StateValues :
            call = TagCall("SharedState", from, s, Chars("EGKK_TWR"), overflow_checks)
        \/ \E i \in DOMAIN StructuredStateValues :
            call = TagCall("SharedState", from, StructuredStateValues[i],
                           Chars("EGKK_TWR"), overflow_checks)
    /\ res = Nil
    /\ out = Nil
    /\ back = Nil

\* to_string() of the message.
TagsFormat ==
    /\ pc = "start"
    /\ pc' = "encoded"
    /\ \E order \in IterOrders(IF call.kind = "ClientQueryResponse"
                                   /\ call.body[2].response = "Capabilities"
                               THEN call.body[2].args[1] ELSE {}) :
        out' = IF call.kind = "ClientQuery" THEN ClientQueryMessage_fmt(call)
               ELSE IF call.kind = "ClientQueryResponse"
               THEN ClientQueryResponseMessage_fmt(call, order)
               ELSE SharedStateMessage_fmt(call)
    /\ UNCHANGED <<call, res, back>>

\* The line is split and handed to the try_from of the same message kind.
TagsParse ==
    /\ pc = "encoded"
    /\ pc' = "reparsed"
    /\ back' = IF call.kind = "ClientQuery"
               THEN ClientQueryMessage_try_from(split(out, {":"}), call.overflow_checks)
               ELSE IF call.kind = "ClientQueryResponse"
               THEN ClientQueryResponseMessage_try_from(split(out, {":"}))
               ELSE SharedStateMessage_try_from(split(out, {":"}), call.overflow_checks)
    /\ UNCHANGED <<call, res, out>>

NextTags == TagsFormat \/ TagsParse

SpecTags == InitTags /\ [][NextTags]_vars

\* The sub-variant that was written, and the one the line was decoded to.
WrittenVariant ==
    IF call.kind = "ClientQuery" THEN call.body[2].query
    ELSE IF call.kind = "ClientQueryResponse" THEN call.body[2].response
    ELSE call.body[2].state
DecodedVariant ==
    IF call.kind = "ClientQuery" THEN back.val.body[2].query
    ELSE IF call.kind = "ClientQueryResponse" THEN back.val.body[2].response
    ELSE back.val.body[2].state

\* C27: the line written for a sub-variant of a client query, of a
\* client-query response or of a shared state is taken by the parser of
\* its message kind to the arm of that sub-variant: the parser never answers
\* UnknownMessageType or InvalidSharedStateType, and what it decodes is
\* the sub-variant that was written.
C27_TagsAgree ==
    pc = "reparsed" =>
        /\ back.tag \in {"Ok", "Err"}
        /\ back.tag = "Err" =>
               back.err \notin {"UnknownMessageType", "InvalidSharedStateType"}
        /\ back.tag = "Ok" => DecodedVariant = WrittenVariant

\* A NewInfo query was written and its line handed to the parser of
\* client queries.
C27_Witness ==
    /\ pc = "reparsed"
    /\ call.kind = "ClientQuery"
    /\ call.body[2].query = "NewInfo"
    /\ out = Chars("$CQEGLL_TWR:@94835:NEWINFO:A")

-----------------------------------------------------------------------------
(* Scratchpads written and read again *)

\* C28: a scratchpad value, written and parsed again, is the same variant
\* with the same payload.  The values are those ScratchPad::from_str
\* decodes, so a plain text among them is never a command.
C28_PadRoundTrip ==
    pc = "reparsed" =>
        /\ IsOk(back)
        /\ back.val.pad = res.val.pad
        /\ back.val.value = res.val.value

\* The Mach number 7 was decoded from "M07", written and parsed again.
C28_Witness ==
    /\ pc = "reparsed"
    /\ call.text = Chars("M07")
    /\ res = Pad("Mach", <<"7">>)
    /\ out = <<"7">>

-----------------------------------------------------------------------------
(* The thousandths of a frequency *)

\* C29: a frequency that RadioFrequency::new, the compact parser or the
\* dotted parser returns has thousandths from 0 to 999, so that its compact
\* form is five characters long and its dotted form has three digits after
\* the point.
C29_ThousandthsInRange ==
    /\ (pc # "start" /\ IsOk(res)) => res.val.right \in 0..999
    /\ pc \in {"encoded", "reparsed"} =>
        /\ IsOk(out.wire)
        /\ Len(out.wire.val) = 5
        /\ Len(split(out.human, {"."})[2]) = 3

\* RadioFrequency::new(118, 1000) returned a frequency, and it was written.
C29_Witness ==
    /\ pc = "encoded"
    /\ call.fn = "RadioFrequency::new"
    /\ call.left = 118
    /\ call.right = 1000
    /\ res = Ok(Freq(118, 1000))
    /\ out.wire = Ok(Chars("181000"))
    /\ out.human = Chars("118.1000")

-----------------------------------------------------------------------------
(* Flight levels beyond the 32 bits of an altitude *)

\* The digits n after "FL" are a u32 and 100 * n is not: n is above
\* 42949672 and not above 4294967295.
ProductOverflows(t) ==
    /\ IsFlightLevelText(t)
    /\ ~DigitsGreater(StripZeros(SubSeq(t, 3, Len(t))), U32Max)
    /\ DigitsGreater(StripZeros(SubSeq(t, 3, Len(t))), Chars("42949672"))

\* C30: parse_altitude of "FL" and digits n, with n a u32 whose hundredfold
\* is not one, is InvalidAltitude: neither a wrapped value nor an abort.
C30_NoOverflow ==
    (pc = "decoded" /\ ProductOverflows(call.text)) =>
        res = Err("InvalidAltitude", call.text)

\* parse_altitude("FL42949673") was called in a build without overflow
\* checks and returned 4.
C30_Witness ==
    /\ pc = "decoded"
    /\ call.text = Chars("FL42949673")
    /\ res = Ok(<<"4">>)

====
